---- MODULE Spec2Model ----
(***************************************************************************)
(* Model of the auto-apply engine: AutoApplyWorker (run coordinator),      *)
(* PlaywrightJobApplicator (browser session, applyToJob) and               *)
(* SupabaseManager (the applied_jobs ledger).                              *)
(*                                                                         *)
(* A process of the program runs main either in scheduler mode ("sched")   *)
(* or with --manual ("manual").  Each process owns its AutoApplyWorker     *)
(* singleton, hence its own isRunning flag and its own                     *)
(* PlaywrightJobApplicator; the processes that exist share the ledger.     *)
(* Spec is one process in either mode; SpecTwo is a scheduler process and  *)
(* a manual process side by side.                                          *)
(***************************************************************************)
EXTENDS Integers, Sequences, FiniteSets, Bags, TLC

\* ---------------------------------------------------------------- bounds
\* (user, posting) pairs of the world of one process: the rows of the users
\* table times the postings the site lists
MaxPairs == 3
\* (user, posting) pairs of the world of the two-process specification
TwoPairs == 1

\* tokens of the comma-separated lists of a user (blacklisted_companies,
\* skip_keywords)
MaxTokens == 3
\* elements the page.evaluate of searchJobs extracts from the search page
MaxRaw == 12
\* fields of a form that are not plain in the forms tried
MaxOdd == 2
\* The most options of a radio group in the forms tried.
MaxOptions == 2

Users == 1..MaxPairs
Urls == 1..MaxPairs
Procs == {"sched", "manual"}
NoUser == 0
NoExit == -1

\* ------------------------------------------------------- program constants
\* processUser: filteredJobs.slice(0, 10)
MaxJobsPerSession == 10

\* searchJobs: uniqueJobs.slice(0, 10)
MaxUniqueJobs == 10

\* The status values admitted by the CHECK constraint of applied_jobs.
StatusValues == {"applied", "error", "skipped", "duplicate"}

VARIABLES
  alive,         \* the processes of the program that exist
  autoApplyUsers,\* the rows of the users table with Auto-Apply = true
  listed,        \* the postings the search page of the site can list
  ledger,        \* the applied_jobs table: a bag of rows
  isRunning,     \* AutoApplyWorker.isRunning, per process
  browser,       \* PlaywrightJobApplicator.browser ("null" or "live")
  context,       \* PlaywrightJobApplicator.context
  page,          \* PlaywrightJobApplicator.page
  pc,            \* where each process's run is
  userIdArg,     \* the --user= argument of a manual run (NoUser: absent)
  users,         \* the users list of the run in flight
  userIdx,       \* number of users of the list already processed
  jobs,          \* jobsToApply of the user being processed
  jobIdx,        \* index in jobs of the posting being attempted
  runOutcome,    \* how the try block of the run was left
  lastTick,      \* what the last cron callback did
  invoked,       \* users for which processUser was invoked in this run
  lastUserResult,\* how the last processUser call of the run ended
  tried,         \* postings for which applyToJob was invoked (this user)
  lastOutcome,   \* what the last applyToJob call of the batch returned or threw
  preStatus,     \* ledger status of (user, url) when applyToJob was invoked
  navigated,     \* the attempt loaded the posting URL
  filled,        \* the attempt ran fillApplicationForm
  attached,      \* the file input of the form on the page holds the resume document
  submitClicks,  \* clicks on the submit control in the attempt
  appended,      \* rows this attempt added to the ledger
  result,        \* status of what applyToJob returned ("threw": it threw)
  success,       \* success of what applyToJob returned
  err,           \* the error captured by the catch block of applyToJob
  stage,         \* the last step of applyToJob the attempt entered
  over,          \* Date.now() - startTime > applicationTimeout
  indicators,    \* what the page shows after the click on the submit control
  errorMessage,  \* error.message after the timeout test of the catch block
  searched,      \* how the last searchJobs call went
  exitCode,      \* the status the process exited with (NoExit: it has not)
  fnArgs,        \* the arguments of a function applied on its own
  fnResult       \* what the function returned

sessionVars == <<browser, context, page>>
runVars == <<userIdArg, users, userIdx, runOutcome, invoked, lastUserResult>>
batchVars == <<jobs, jobIdx, tried, lastOutcome>>
attemptVars == <<preStatus, navigated, filled, attached, submitClicks, appended, result,
                 success, err,
                 stage, over, indicators, errorMessage>>
fnVars == <<fnArgs, fnResult>>
envVars == <<alive, autoApplyUsers, listed, fnVars>>
vars == <<envVars, ledger, isRunning, pc, lastTick, sessionVars, runVars, batchVars,
          attemptVars, searched, exitCode>>

\* ------------------------------------------------------------ the ledger
Row(userId, jobUrl, status) ==
  [user_id |-> userId, job_url |-> jobUrl, status |-> status]

Rows(l) == BagToSet(l)

\* A table without the unique key.
UniqueViolationOff(l, r) == FALSE

\* UNIQUE(user_id, job_url) of applied_jobs: does inserting r violate it?
UniqueViolation(l, r) ==
  \E q \in Rows(l) : q.user_id = r.user_id /\ q.job_url = r.job_url

\* A duplicate check that never finds a row.
hasAppliedToJobNever(l, userId, jobUrl) == FALSE

\* SupabaseManager.hasAppliedToJob: select id ... eq user_id, eq job_url,
\* limit 1; true when a row came back.
hasAppliedToJob(l, userId, jobUrl) ==
  Cardinality({q \in Rows(l) : q.user_id = userId /\ q.job_url = jobUrl}) > 0

\* The insert of SupabaseManager.logApplication on the table.
Insert(l, r) == l (+) SetToBag({r})

\* SupabaseManager.logApplication: the row is inserted unless the store
\* fails or the insert violates the unique key; then it throws.
\* A logApplication that does not see the rejection of the insert.
logApplicationOkBlind(l, r, storeOk) == storeOk

logApplicationOk(l, r, storeOk) == storeOk /\ ~UniqueViolation(l, r)

\* A logApplication that reports success without writing the row.
logApplicationNoWrite(l, r, storeOk) == l

\* A logApplication that upserts on (user_id, job_url).
logApplicationUpsert(l, r, storeOk) ==
  IF storeOk
    THEN LET kept == {q \in Rows(l) : q.user_id # r.user_id \/ q.job_url # r.job_url}
         IN [q \in kept |-> l[q]] (+) SetToBag({r})
    ELSE l

logApplication(l, r, storeOk) ==
  IF logApplicationOk(l, r, storeOk) THEN Insert(l, r) ELSE l

\* Number of rows of (userId, jobUrl).
CountKey(l, userId, jobUrl) ==
  LET m == {q \in Rows(l) : q.user_id = userId /\ q.job_url = jobUrl}
  IN IF m = {} THEN 0 ELSE BagCardinality([q \in m |-> l[q]])

\* Number of rows by which the table grew from l to l2.
Grown(l, l2) == BagCardinality(l2) - BagCardinality(l)

\* Status of the row of (userId, jobUrl), "none" if there is none.
StatusOf(l, userId, jobUrl) ==
  LET m == {q \in Rows(l) : q.user_id = userId /\ q.job_url = jobUrl}
  IN IF m = {} THEN "none"
     ELSE IF \E q \in m : q.status = "applied" THEN "applied"
     ELSE "error"

\* ------------------------------------------------------------- inputs
Max(S) == CHOOSE x \in S : \A y \in S : y <= x

RECURSIVE SubSeqs(_)
\* The sequences of elements of S in increasing order, without repetition.
SubSeqs(S) ==
  IF S = {} THEN {<< >>}
  ELSE LET m == Max(S)
           rest == SubSeqs(S \ {m})
       IN rest \cup {Append(s, m) : s \in rest}

Range(s) == {s[i] : i \in 1..Len(s)}

\* getAutoApplyUsers: select * from users where Auto-Apply = true; the rows
\* in table order.
getAutoApplyUsers(table) ==
  CHOOSE s \in SubSeqs(table) : Range(s) = table

\* searchJobs: the postings the page shows, in page order, without two
\* equal urls (uniqueJobs); the empty list also when the search failed.
JobLists(site) == SubSeqs(site)

InitProcs ==
  /\ ledger = EmptyBag
  /\ isRunning = [p \in Procs |-> FALSE]
  /\ browser = [p \in Procs |-> "null"]
  /\ context = [p \in Procs |-> "null"]
  /\ page = [p \in Procs |-> "null"]
  /\ pc = [p \in Procs |-> "idle"]
  /\ userIdArg = [p \in Procs |-> NoUser]
  /\ users = [p \in Procs |-> << >>]
  /\ userIdx = [p \in Procs |-> 0]
  /\ jobs = [p \in Procs |-> << >>]
  /\ jobIdx = [p \in Procs |-> 0]
  /\ runOutcome = [p \in Procs |-> "none"]
  /\ lastTick = [p \in Procs |-> "none"]
  /\ invoked = [p \in Procs |-> << >>]
  /\ lastUserResult = [p \in Procs |-> "none"]
  /\ tried = [p \in Procs |-> << >>]
  /\ lastOutcome = [p \in Procs |-> "none"]
  /\ preStatus = [p \in Procs |-> "none"]
  /\ navigated = [p \in Procs |-> FALSE]
  /\ filled = [p \in Procs |-> FALSE]
  /\ attached = [p \in Procs |-> FALSE]
  /\ submitClicks = [p \in Procs |-> 0]
  /\ appended = [p \in Procs |-> 0]
  /\ result = [p \in Procs |-> "none"]
  /\ success = [p \in Procs |-> FALSE]
  /\ err = [p \in Procs |-> "none"]
  /\ stage = [p \in Procs |-> "none"]
  /\ over = [p \in Procs |-> FALSE]
  /\ indicators = [p \in Procs |-> {}]
  /\ errorMessage = [p \in Procs |-> "none"]
  /\ searched = [p \in Procs |-> "none"]
  /\ exitCode = [p \in Procs |-> NoExit]

\* No function is applied on its own.
NoCall ==
  /\ fnArgs = [fn |-> "none"]
  /\ fnResult = [done |-> FALSE]

\* The worlds of at most n (user, posting) pairs: <<number of rows of the
\* users table with Auto-Apply = true, number of postings the site lists>>.
Worlds(n) ==
  {w \in (0..n) \X (1..n) : IF w[1] = 0 THEN w[2] = 1 ELSE w[1] * w[2] <= n}

\* One process of the program, in scheduler mode or in manual mode.
Init ==
  /\ alive \in {{"sched"}, {"manual"}}
  /\ \E w \in Worlds(MaxPairs) :
       autoApplyUsers = 1..w[1] /\ listed = 1..w[2]
  /\ InitProcs
  /\ NoCall

\* A scheduler process and a manual process on the same store, and a site
\* that lists one posting: the two processes contend for the same pairs.
InitTwo ==
  /\ alive = Procs
  /\ \E w \in Worlds(TwoPairs) :
       w[1] >= 1 /\ w[2] = 1 /\ autoApplyUsers = 1..w[1] /\ listed = 1..w[2]
  /\ InitProcs
  /\ NoCall


Upd(f, p, v) == [f EXCEPT ![p] = v]

\* The state of the attempt variables between two applyToJob calls.
ResetAttempt(p) ==
  /\ preStatus' = Upd(preStatus, p, "none")
  /\ navigated' = Upd(navigated, p, FALSE)
  /\ filled' = Upd(filled, p, FALSE)
  /\ attached' = Upd(attached, p, FALSE)
  /\ submitClicks' = Upd(submitClicks, p, 0)
  /\ appended' = Upd(appended, p, 0)
  /\ result' = Upd(result, p, "none")
  /\ success' = Upd(success, p, FALSE)
  /\ err' = Upd(err, p, "none")
  /\ stage' = Upd(stage, p, "none")
  /\ over' = Upd(over, p, FALSE)
  /\ indicators' = Upd(indicators, p, {})
  /\ errorMessage' = Upd(errorMessage, p, "none")

ResetBatch(p) ==
  /\ jobs' = Upd(jobs, p, << >>)
  /\ jobIdx' = Upd(jobIdx, p, 0)
  /\ tried' = Upd(tried, p, << >>)
  /\ lastOutcome' = Upd(lastOutcome, p, "none")

ResetRun(p) ==
  /\ users' = Upd(users, p, << >>)
  /\ userIdx' = Upd(userIdx, p, 0)
  /\ runOutcome' = Upd(runOutcome, p, "none")
  /\ invoked' = Upd(invoked, p, << >>)
  /\ lastUserResult' = Upd(lastUserResult, p, "none")

\* ------------------------------------------------------ AutoApplyWorker
\* The callback given to cron.schedule in startScheduler, with the
\* synchronous head of runAutoApplyJob (isRunning = true).
CronTick(p) ==
  /\ p = "sched" /\ p \in alive
  /\ IF isRunning[p]
       THEN /\ lastTick' = Upd(lastTick, p, "skipped")
            /\ UNCHANGED <<isRunning, pc, runVars>>
       ELSE /\ pc[p] = "idle"
            /\ lastTick' = Upd(lastTick, p, "started")
            /\ isRunning' = Upd(isRunning, p, TRUE)
            /\ pc' = Upd(pc, p, "getUsers")
            /\ ResetRun(p)
            /\ UNCHANGED userIdArg
  /\ UNCHANGED <<envVars, ledger, sessionVars, batchVars, attemptVars, searched, exitCode>>

\* main with --manual: runManualJob(userId) is called; it neither reads nor
\* sets isRunning.
ManualStart(p) ==
  /\ p = "manual" /\ p \in alive
  /\ pc[p] = "idle"
  /\ \E uid \in Users \cup {NoUser} : userIdArg' = Upd(userIdArg, p, uid)
  /\ pc' = Upd(pc, p, "getUsers")
  /\ ResetRun(p)
  /\ exitCode' = Upd(exitCode, p, NoExit)
  /\ UNCHANGED <<envVars, ledger, isRunning, lastTick, sessionVars, batchVars, attemptVars,
                 searched>>

\* runManualJob: users.filter(user => user.user_id === userId) when a
\* userId was given; runAutoApplyJob takes the list as it is.
SelectUsers(p, list, uid) ==
  IF p = "manual" /\ uid # NoUser
    THEN SelectSeq(list, LAMBDA u : u = uid)
    ELSE list

\* await supabaseManager.getAutoApplyUsers() and the two early returns.
GetUsers(p) ==
  /\ pc[p] = "getUsers"
  /\ \E storeOk \in BOOLEAN :
       IF ~storeOk
         THEN /\ runOutcome' = Upd(runOutcome, p, "storeError")
              /\ pc' = Upd(pc, p, "finally")
              /\ UNCHANGED users
         ELSE LET sel == SelectUsers(p, getAutoApplyUsers(autoApplyUsers), userIdArg[p]) IN
              /\ users' = Upd(users, p, sel)
              /\ IF sel = << >>
                   THEN /\ runOutcome' = Upd(runOutcome, p, "noUsers")
                        /\ pc' = Upd(pc, p, "finally")
                   ELSE /\ pc' = Upd(pc, p, "initialize")
                        /\ UNCHANGED runOutcome
  /\ UNCHANGED <<envVars, ledger, isRunning, lastTick, sessionVars, batchVars, attemptVars,
                 userIdArg, userIdx, invoked, lastUserResult, searched, exitCode>>

\* PlaywrightJobApplicator.initialize: launch, newContext, newPage; the
\* first of them that throws (failAt) leaves the later fields as they were.
Initialize(p) ==
  /\ pc[p] = "initialize"
  /\ \E failAt \in {"none", "launch", "newContext", "newPage"} :
       /\ browser' = Upd(browser, p, IF failAt = "launch" THEN browser[p] ELSE "live")
       /\ context' = Upd(context, p,
            IF failAt \in {"launch", "newContext"} THEN context[p] ELSE "live")
       /\ page' = Upd(page, p, IF failAt = "none" THEN "live" ELSE page[p])
       /\ IF failAt = "none"
            THEN /\ pc' = Upd(pc, p, "userLoop")
                 /\ UNCHANGED runOutcome
            ELSE /\ pc' = Upd(pc, p, "finally")
                 /\ runOutcome' = Upd(runOutcome, p, "initError")
  /\ UNCHANGED <<envVars, ledger, isRunning, lastTick, batchVars, attemptVars,
                 userIdArg, users, userIdx, invoked, lastUserResult, searched, exitCode>>

\* for (const userConfig of users): the next processUser call, or the end
\* of the loop.
RunLoop(p) ==
  /\ pc[p] = "userLoop"
  /\ IF userIdx[p] < Len(users[p])
       THEN /\ invoked' = Upd(invoked, p, Append(invoked[p], users[p][userIdx[p] + 1]))
            /\ pc' = Upd(pc, p, "search")
            /\ UNCHANGED runOutcome
       ELSE /\ runOutcome' = Upd(runOutcome, p, "completed")
            /\ pc' = Upd(pc, p, "finally")
            /\ UNCHANGED invoked
  /\ UNCHANGED <<envVars, ledger, isRunning, lastTick, sessionVars, batchVars, attemptVars,
                 userIdArg, users, userIdx, lastUserResult, searched, exitCode>>

CurUser(p) == users[p][userIdx[p] + 1]
CurJob(p) == jobs[p][jobIdx[p]]

\* A filterJobs that keeps every posting.
filterJobsKeepsAll(found, excl) == found

\* PlaywrightJobApplicator.filterJobs: jobs.filter(job => ...), where excl
\* is the set of the jobs for which one of the three tests of the callback
\* returns false.
filterJobs(found, excl) == SelectSeq(found, LAMBDA j : j \notin excl)

\* filteredJobs.slice(0, 10)
Slice(s, n) == SubSeq(s, 1, IF Len(s) < n THEN Len(s) ELSE n)

\* const jobsToApply = filteredJobs.slice(0, 10) of processUser, the list
\* whose elements the loop calls applyToJob with, one call for each in the
\* order of the list; found is what searchJobs returned.
jobsToApply(found, excl) == Slice(filterJobs(found, excl), MaxJobsPerSession)

\* The selectors of the fallback chain of searchJobs, in the order in which
\* they are waited for.
ListingSelectors ==
  <<"[data-testid=job-card]", ".job-card", "[class*=job]", "a[href*=/jobs/]">>

\* The pages tried: no selector of the chain appears, the first one does,
\* only later ones do.
SelectorCases == {{}, {1}, {2, Len(ListingSelectors)}}

\* A searchJobs whose catch block rethrows.
searchJobsRethrow(gotoOk, present, shown) ==
  IF gotoOk /\ present # {}
    THEN [threw |-> FALSE, jobs |-> shown]
    ELSE [threw |-> TRUE, jobs |-> << >>]

\* searchJobs with a page: page.goto of the search url, the fallback chain
\* (present: the selectors of the chain that appear within their 5 s; when
\* none does, the last waitForSelector throws), page.evaluate returning
\* shown; catch (error) { return [] }.
searchJobs(gotoOk, present, shown) ==
  [threw |-> FALSE,
   jobs |-> IF gotoOk /\ present # {} THEN shown ELSE << >>]

\* In a run a posting is identified by its url, and excl is the set of the
\* postings that a test of filterJobs excludes for the user.
\* processUser up to the apply loop: searchJobs, the return on an empty
\* list, filterJobs, the return on an empty list, slice.
ProcessUserSearch(p) ==
  /\ pc[p] = "search"
  /\ IF page[p] = "null"
       THEN \* searchJobs: throw new Error('Browser not initialized')
            /\ searched' = Upd(searched, p, "notInitialized")
            /\ lastUserResult' = Upd(lastUserResult, p, "threw")
            /\ pc' = Upd(pc, p, "userEnd")
            /\ ResetBatch(p)
       ELSE \E gotoOk \in BOOLEAN, present \in SelectorCases :
            \E shown \in (IF gotoOk /\ present # {} THEN JobLists(listed) ELSE {<< >>}) :
            \E excl \in SUBSET Range(shown) :
              LET s == searchJobs(gotoOk, present, shown)
                  toApply == jobsToApply(s.jobs, excl)
              IN
              /\ searched' = Upd(searched, p,
                   IF ~gotoOk THEN "gotoFailed"
                   ELSE IF present = {} THEN "noListing" ELSE "listed")
              /\ IF s.threw
                   THEN /\ lastUserResult' = Upd(lastUserResult, p, "threw")
                        /\ pc' = Upd(pc, p, "userEnd")
                        /\ ResetBatch(p)
                   ELSE IF toApply = << >>
                     THEN /\ lastUserResult' = Upd(lastUserResult, p, "returned")
                          /\ pc' = Upd(pc, p, "userEnd")
                          /\ ResetBatch(p)
                     ELSE /\ jobs' = Upd(jobs, p, toApply)
                          /\ jobIdx' = Upd(jobIdx, p, 1)
                          /\ tried' = Upd(tried, p, << >>)
                          /\ lastOutcome' = Upd(lastOutcome, p, "none")
                          /\ pc' = Upd(pc, p, "dupCheck")
                          /\ UNCHANGED lastUserResult
  /\ UNCHANGED <<envVars, ledger, isRunning, lastTick, sessionVars, attemptVars,
                 userIdArg, users, userIdx, runOutcome, invoked, exitCode>>

\* ---------------------------- PlaywrightJobApplicator.fillAllFieldsWithAI
\* What filling a form does to the page, as a sequence of events: a run of
\* dismissOverlays and a call of fill on an element of a field.
Dismiss == [op |-> "dismissOverlays"]
Fill(label) == [op |-> "fill", label |-> label]

\* The labels robustFill is called with, in the order of the calls, with
\* "Phone" where handlePhoneInput is called.
FillSequence ==
  <<"First name", "Last name", "Email", "Headline", "Phone", "Address", "Summary",
    "Cover letter", "Desired compensation", "Commute/relocate">>

RobustLabels == Range(FillSequence) \ {"Phone"}

\* The catch block inside the loop of robustFill: it logs, and the loop goes on
\* with the selectors that are left (rest is what that gives).  First a catch
\* block that leaves robustFill with false.
robustFillCatchReturns(rest) ==
  [events |-> << >>, filled |-> FALSE, queried |-> << >>, written |-> << >>]

robustFillCatch(rest) == rest

\* The loop of robustFill over the selectors, from selector i on.  outcomes
\* says what happens at each selector (at the selectors beyond its end
\* page.$ finds nothing): "absent", page.$ finds nothing; "queryThrows",
\* page.$ throws; "dismissThrows", the element is found and dismissOverlays
\* throws; "fillThrows", element.fill throws; "filled", element.fill
\* succeeds.  What is thrown inside the loop is caught and the loop goes on.
RECURSIVE robustFillFrom(_, _, _)
robustFillFrom(label, outcomes, i) ==
  IF i > Len(outcomes)
    THEN [events |-> << >>, filled |-> FALSE, queried |-> << >>, written |-> << >>]
    ELSE LET rest == robustFillFrom(label, outcomes, i + 1)
             Then(events, after) ==
               [after EXCEPT !.events = events \o @, !.queried = <<i>> \o @]
         IN CASE outcomes[i] = "filled" ->
                   [events |-> <<Dismiss, Fill(label)>>, filled |-> TRUE,
                    queried |-> <<i>>, written |-> <<i>>]
              [] outcomes[i] = "fillThrows" ->
                   Then(<<Dismiss, Fill(label)>>, robustFillCatch(rest))
              [] outcomes[i] = "dismissThrows" -> Then(<<Dismiss>>, robustFillCatch(rest))
              [] outcomes[i] = "queryThrows" -> Then(<< >>, robustFillCatch(rest))
              [] OTHER -> Then(<< >>, rest)

\* robustFill(label, selectors, value): dismissOverlays, outside any try
\* block, then the loop.  field.top is whether that first dismissOverlays
\* returns normally.  queried lists the selectors page.$ was called with and
\* written the selectors whose element holds the value, by their place in
\* the list of the call.
robustFill(label, field) ==
  IF ~field.top
    THEN [events |-> <<Dismiss>>, filled |-> FALSE, threw |-> TRUE,
          queried |-> << >>, written |-> << >>]
    ELSE LET loop == robustFillFrom(label, field.selectors, 1)
         IN [events |-> <<Dismiss>> \o loop.events, filled |-> loop.filled,
             threw |-> FALSE, queried |-> loop.queried, written |-> loop.written]

\* How many selectors the call of robustFill for a label lists.
SelectorCount ==
  [l \in RobustLabels |->
     CASE l \in {"First name", "Last name"} -> 4
       [] l \in {"Desired compensation", "Commute/relocate"} -> 6
       [] OTHER -> 3]

\* What can happen at one selector of the loop.
SelectorOutcomes == {"absent", "queryThrows", "dismissThrows", "fillThrows", "filled"}

\* handlePhoneInput: the country selector and phoneInput.fill in a try
\* block; in its catch block page.$ and phoneInput.fill again, unprotected.
\* phone.primary is how the try block goes ("clickThrows": a click on the
\* country selector throws), phone.fallback how the catch block goes.
handlePhoneInput(phone) ==
  LET fallback ==
        CASE phone.fallback = "filled" ->
               [events |-> <<Fill("Phone")>>, filled |-> TRUE, threw |-> FALSE]
          [] phone.fallback = "noInput" ->
               [events |-> << >>, filled |-> FALSE, threw |-> FALSE]
          [] phone.fallback = "throws" ->
               [events |-> <<Fill("Phone")>>, filled |-> FALSE, threw |-> TRUE]
  IN CASE phone.primary = "filled" ->
            [events |-> <<Fill("Phone")>>, filled |-> TRUE, threw |-> FALSE]
       [] phone.primary = "noInput" ->
            [events |-> << >>, filled |-> FALSE, threw |-> FALSE]
       [] phone.primary = "clickThrows" -> fallback
       [] phone.primary = "fillThrows" ->
            [fallback EXCEPT !.events = <<Fill("Phone")>> \o @]

\* The text sweep of handleRemainingFieldsAndYesNoSelectors, from element i
\* on: for each element dismissOverlays, then element.fill('yes') if the
\* element is empty; "throws": the fill throws, which ends the loop over the
\* elements.  The function catches everything that is thrown in it.
RECURSIVE handleRemainingFieldsFrom(_, _)
handleRemainingFieldsFrom(sweep, i) ==
  IF i > Len(sweep) THEN << >>
  ELSE CASE sweep[i] = "filled" ->
              <<Dismiss, Fill("remaining")>> \o handleRemainingFieldsFrom(sweep, i + 1)
         [] sweep[i] = "skipped" -> <<Dismiss>> \o handleRemainingFieldsFrom(sweep, i + 1)
         [] sweep[i] = "throws" -> <<Dismiss, Fill("remaining")>>

handleRemainingFieldsAndYesNoSelectors(sweep) ==
  [events |-> handleRemainingFieldsFrom(sweep, 1), threw |-> FALSE]

\* fillAllFieldsWithAI from call i of FillSequence on: the calls are awaited
\* one after the other outside any try block, so the first one that throws
\* ends the function; processed lists the labels whose call was made.
RECURSIVE fillAllFieldsFrom(_, _)
fillAllFieldsFrom(env, i) ==
  IF i > Len(FillSequence)
    THEN LET last == handleRemainingFieldsAndYesNoSelectors(env.sweep)
         IN [events |-> last.events, processed |-> <<"remaining">>, threw |-> last.threw]
    ELSE LET label == FillSequence[i]
             call == IF label = "Phone" THEN handlePhoneInput(env.phone)
                                        ELSE robustFill(label, env.fields[label])
         IN IF call.threw
              THEN [events |-> call.events, processed |-> <<label>>, threw |-> TRUE]
              ELSE LET rest == fillAllFieldsFrom(env, i + 1)
                   IN [events |-> call.events \o rest.events,
                       processed |-> <<label>> \o rest.processed,
                       threw |-> rest.threw]

\* PlaywrightJobApplicator.fillAllFieldsWithAI with a page; getValue never
\* throws (generateAnswer returns 'Not specified' on an error).
fillAllFieldsWithAI(env) == fillAllFieldsFrom(env, 1)

\* The forms fillAllFieldsWithAI is applied to.  A field of the form that
\* its first selector finds and fills, and the other fields tried.
PlainField == [top |-> TRUE, selectors |-> <<"filled">>]

OddFields ==
  {[top |-> TRUE, selectors |-> << >>],
   [top |-> TRUE, selectors |-> <<"fillThrows">>],
   [top |-> TRUE, selectors |-> <<"dismissThrows", "filled">>],
   [top |-> FALSE, selectors |-> << >>]}

PhonesTried ==
  [primary : {"filled", "noInput", "clickThrows", "fillThrows"},
   fallback : {"filled", "noInput", "throws"}]

SweepsTried == {<< >>, <<"filled">>, <<"skipped", "filled">>, <<"throws">>}

\* The form whose fields in odd are as g says and whose other fields are
\* plain.
FormOf(odd, g, phone, sweep) ==
  [fields |-> [l \in RobustLabels |-> IF l \in odd THEN g[l] ELSE PlainField],
   phone |-> phone, sweep |-> sweep]

\* The forms an attempt of a run meets: plain fields, any phone field.
FormsMet == {FormOf({}, << >>, ph, << >>) : ph \in PhonesTried}

\* ------------------------------ PlaywrightJobApplicator.handleFileUploads
\* A handleFileUploads that goes on without a document when the user has
\* none.
ResumeFallbackNone(resumePath, placeholderOk) ==
  [resumePath |-> resumePath, requested |-> FALSE, returns |-> FALSE]

\* if (!resumePath) { try { resumePath = await generateAndUploadEmptyPDF(
\* userConfig.id) } catch (error) { return } }: the document of the empty
\* resume page, which is rendered to a PDF and stored.
ResumeFallback(resumePath, placeholderOk) ==
  IF resumePath # "null"
    THEN [resumePath |-> resumePath, requested |-> FALSE, returns |-> FALSE]
    ELSE [resumePath |-> IF placeholderOk THEN "placeholder" ELSE "null",
          requested |-> TRUE, returns |-> ~placeholderOk]

\* A handleFileUploads whose catch block rethrows.
handleFileUploadsRethrows(raised) == raised

\* try { ... } catch (error) { logger.error('Error handling file upload:',
\* error) }: whether handleFileUploads throws when an exception was raised
\* in its try block.
handleFileUploadsThrows(raised) == FALSE

\* PlaywrightJobApplicator.handleFileUploads with a page.  userConfig says
\* which resume fields of the user are set; env says how each call made on
\* the way answers.  The result: document, the document that was resolved;
\* requested, whether the empty resume was asked for; temp, whether the
\* transient file was written, and left, whether it is still there at the
\* end; files, what the file input of the form holds at the end; tried, the
\* attachment strategies in the order in which they were tried; raised,
\* whether an exception reached the outer catch block; threw, whether an
\* exception left the function.
handleFileUploads(userConfig, env) ==
  LET lookup == IF userConfig.selected_resume_id THEN env.getResumeById ELSE "skipped"
      resolutionThrows == lookup = "throws" \/ (lookup = "data" /\ ~env.renderOk)
      resolved == IF userConfig.selected_resume_id
                    THEN (IF lookup = "data" THEN "rendered" ELSE "null")
                    ELSE IF userConfig.resume_path THEN "stored" ELSE "null"
      fallback == ResumeFallback(resolved, env.placeholderOk)
      nothing == [document |-> "none", requested |-> FALSE, temp |-> FALSE, left |-> FALSE,
                  files |-> "none", tried |-> << >>, raised |-> FALSE, threw |-> FALSE]
      Caught(r) == [r EXCEPT !.raised = TRUE, !.threw = handleFileUploadsThrows(TRUE)]
  IN
  IF resolutionThrows THEN Caught(nothing)
  ELSE IF fallback.returns THEN [nothing EXCEPT !.requested = TRUE]
  ELSE
    LET doc == fallback.resumePath
        got == [nothing EXCEPT !.requested = fallback.requested,
                               !.document = IF doc = "null" THEN "none" ELSE doc]
        \* getResumeFile: null without a path or without data, throws on a
        \* download error
        buffer == IF doc = "null" THEN "null" ELSE env.getResumeFile
    IN
    IF buffer = "throws" THEN Caught(got)
    ELSE IF buffer = "null" THEN got
    ELSE IF ~env.writeOk THEN Caught(got)
    ELSE
      LET written == [got EXCEPT !.temp = TRUE, !.left = TRUE] IN
      IF env.fileInput
        THEN IF env.direct = "waitThrows"
               THEN \* await this.page.waitForTimeout(1000) before the attachment
                    Caught(written)
               ELSE
             LET direct == [written EXCEPT !.tried = <<"direct">>,
                              !.files = IF env.direct = "throws" THEN "none" ELSE doc]
                 dropzoneTried ==
                   IF env.dropzone = "absent" THEN direct
                   ELSE [direct EXCEPT !.tried = Append(@, "dropzone"),
                           !.files = IF env.dropzone = "retryOk" THEN doc ELSE @]
                 assignTried ==
                   [dropzoneTried EXCEPT !.tried = Append(@, "assign"),
                      !.files = IF env.assign = "assigned" THEN "emptyFile" ELSE @]
                 strategiesTried == IF env.direct = "ok" THEN direct ELSE assignTried
             IN [strategiesTried EXCEPT !.left = ~env.unlinkOk]
        ELSE [written EXCEPT
                !.tried = IF env.uploadButton = "absent" THEN << >> ELSE <<"uploadButton">>,
                !.files = IF env.uploadButton = "attached" THEN doc ELSE "none"]

\* The users and the answers handleFileUploads is applied to.
UploadConfigsTried == [selected_resume_id : BOOLEAN, resume_path : BOOLEAN]

UploadEnvsTried ==
  [getResumeById : {"data", "none", "throws"},
   renderOk : BOOLEAN,
   placeholderOk : BOOLEAN,
   getResumeFile : {"buffer", "null", "throws"},
   writeOk : BOOLEAN,
   fileInput : BOOLEAN,
   direct : {"ok", "throws", "okThenThrows", "waitThrows"},
   dropzone : {"absent", "retryOk", "retryThrows"},
   assign : {"assigned", "noInput", "throws"},
   unlinkOk : BOOLEAN,
   uploadButton : {"absent", "attached", "noInput", "throws"}]

\* The answers an attempt of a run meets: all calls succeed, or one of them
\* fails.
UploadAllOk ==
  [getResumeById |-> "data", renderOk |-> TRUE, placeholderOk |-> TRUE,
   getResumeFile |-> "buffer", writeOk |-> TRUE, fileInput |-> TRUE, direct |-> "ok",
   dropzone |-> "absent", assign |-> "noInput", unlinkOk |-> TRUE,
   uploadButton |-> "absent"]

UploadEnvsMet ==
  {UploadAllOk,
   [UploadAllOk EXCEPT !.getResumeById = "throws"],
   [UploadAllOk EXCEPT !.renderOk = FALSE],
   [UploadAllOk EXCEPT !.placeholderOk = FALSE],
   [UploadAllOk EXCEPT !.getResumeFile = "throws"],
   [UploadAllOk EXCEPT !.writeOk = FALSE],
   [UploadAllOk EXCEPT !.fileInput = FALSE],
   [UploadAllOk EXCEPT !.direct = "waitThrows"],
   [UploadAllOk EXCEPT !.direct = "throws", !.assign = "throws"]}

\* ----------------------------------------- PlaywrightJobApplicator.applyToJob
\* const applicationTimeout = 60000 (milliseconds)
applicationTimeout == 60000

\* The error kinds the catch block of applyToJob can capture.
ErrKinds == {"store", "navigation", "noApplyControl", "noForm", "fill", "upload",
             "noSubmit", "click", "noSuccess", "logFailed"}

\* error.message of the captured error: the text of the Error objects that
\* applyToJob creates itself; the errors of Playwright and of the store are
\* named by their kind.
Message(kind) ==
  CASE kind = "navigation" -> "Navigation timeout"
    [] kind = "noForm" -> "No application form available"
    [] kind = "noSubmit" -> "Submit button not found"
    [] kind = "noSuccess" -> "No success indicator found after submission"
    [] OTHER -> kind

\* new Error(`Application timeout after ${applicationTimeout}ms`)
TimeoutMessage == "Application timeout after " \o ToString(applicationTimeout) \o "ms"

\* A catch block that keeps the captured error whatever the elapsed time.
CaughtMessageKept(kind, late) == Message(kind)

\* The head of the catch block: if (Date.now() - startTime >
\* applicationTimeout) error = new Error(...); late is the test.
CaughtMessage(kind, late) == IF late THEN TimeoutMessage ELSE Message(kind)

\* A form wait whose failure is passed on as Playwright raised it.
FormWaitErrorRaw == "selectorTimeout"

\* catch (error) { throw new Error('No application form available') }
FormWaitError == "noForm"

attemptFrame == <<envVars, isRunning, lastTick, sessionVars, runVars, jobs, jobIdx, lastOutcome,
                  searched, exitCode>>

Throw(p, kind) ==
  /\ err' = Upd(err, p, kind)
  /\ pc' = Upd(pc, p, "catch")

\* The clock is read in one place, the head of the catch block; the try
\* block never reads it.  late is whether Date.now() - startTime exceeds
\* applicationTimeout when the attempt ends: the awaited steps (the store
\* calls, the filling of the form) take as long as they take, so both
\* answers are possible wherever the attempt ends.
Elapsed(p, late) == over' = Upd(over, p, late)

\* The results applyToJob returns: for a posting already in the ledger, after
\* the 'applied' record was written, and from the catch block after the
\* 'error' record was written.  First a catch block that returns 'skipped'.
DuplicateResult == [success |-> FALSE, status |-> "duplicate"]

AppliedResult == [success |-> TRUE, status |-> "applied"]

ErrorResultSkipped == [success |-> FALSE, status |-> "skipped"]

ErrorResult == [success |-> FALSE, status |-> "error"]

\* The loop body of processUser calls applyToJob(job, userConfig); the page
\* test, then the duplicate check on the ledger.
DuplicateCheck(p) ==
  /\ pc[p] = "dupCheck"
  /\ tried' = Upd(tried, p, Append(tried[p], CurJob(p)))
  /\ preStatus' = Upd(preStatus, p, StatusOf(ledger, CurUser(p), CurJob(p)))
  /\ stage' = Upd(stage, p, "DuplicateCheck")
  /\ IF page[p] = "null"
       THEN \* thrown before startTime is taken and before the try block
            /\ result' = Upd(result, p, "threw")
            /\ pc' = Upd(pc, p, "attemptEnd")
            /\ UNCHANGED success
            /\ UNCHANGED <<err, over>>
       ELSE \E storeOk \in BOOLEAN :
              IF ~storeOk
                THEN Throw(p, "store") /\ UNCHANGED <<result, success, over>>
                ELSE IF hasAppliedToJob(ledger, CurUser(p), CurJob(p))
                  THEN /\ result' = Upd(result, p, DuplicateResult.status)
                       /\ success' = Upd(success, p, DuplicateResult.success)
                       /\ pc' = Upd(pc, p, "attemptEnd")
                       /\ UNCHANGED <<err, over>>
                  ELSE /\ pc' = Upd(pc, p, "navigate")
                       /\ UNCHANGED <<result, success, err, over>>
  /\ UNCHANGED <<attached, envVars, ledger, attemptFrame, navigated, filled, submitClicks, appended,
                 indicators, errorMessage>>

\* page.goto(job.url) raced against the 30 s navigation timeout.
Navigate(p) ==
  /\ pc[p] = "navigate"
  /\ navigated' = Upd(navigated, p, TRUE)
  /\ stage' = Upd(stage, p, "Navigate")
  /\ \E ok \in BOOLEAN :
       IF ok THEN pc' = Upd(pc, p, "locateApply") /\ UNCHANGED err
             ELSE Throw(p, "navigation")
  /\ UNCHANGED <<attached, envVars, ledger, attemptFrame, tried, preStatus, filled, submitClicks,
                 appended, result, success, over, indicators, errorMessage>>

\* waitForSelector of the apply control, Escape on a backdrop, click with
\* the page.evaluate fallback.
LocateApplyControl(p) ==
  /\ pc[p] = "locateApply"
  /\ stage' = Upd(stage, p, "LocateApplyControl")
  /\ \E ok \in BOOLEAN :
       IF ok THEN pc' = Upd(pc, p, "openForm") /\ UNCHANGED err
             ELSE Throw(p, "noApplyControl")
  /\ UNCHANGED <<attached, envVars, ledger, attemptFrame, tried, preStatus, navigated, filled,
                 submitClicks, appended, result, success, over, indicators, errorMessage>>

\* waitForSelector('form, ...', 10 s); its failure is rethrown as
\* 'No application form available'.
OpenForm(p) ==
  /\ pc[p] = "openForm"
  /\ stage' = Upd(stage, p, "OpenForm")
  /\ \E formAppears \in BOOLEAN :
       IF formAppears THEN pc' = Upd(pc, p, "fill") /\ UNCHANGED err
                      ELSE Throw(p, FormWaitError)
  /\ UNCHANGED <<attached, envVars, ledger, attemptFrame, tried, preStatus, navigated, filled,
                 submitClicks, appended, result, success, over, indicators, errorMessage>>

\* A fillApplicationForm that does not call handleFileUploads.
AfterFillFieldsSkip == "submit"

\* fillApplicationForm: await this.fillAllFieldsWithAI(userConfig), then
\* await this.handleFileUploads(userConfig); where the attempt goes when
\* fillAllFieldsWithAI has returned.
AfterFillFields == "attach"

\* fillApplicationForm, first call: fillAllFieldsWithAI on the form the
\* page shows; what it throws is rethrown.
FillFields(p) ==
  /\ pc[p] = "fill"
  /\ filled' = Upd(filled, p, TRUE)
  /\ stage' = Upd(stage, p, "FillFields")
  /\ \E env \in FormsMet :
       IF fillAllFieldsWithAI(env).threw
         THEN Throw(p, "fill")
         ELSE pc' = Upd(pc, p, AfterFillFields) /\ UNCHANGED err
  /\ UNCHANGED <<envVars, ledger, attemptFrame, tried, preStatus, navigated, attached,
                 submitClicks, appended, result, success, over, indicators, errorMessage>>

\* fillApplicationForm, second call: handleFileUploads for the resume
\* fields of the user and the answers of the store and of the page.
AttachResume(p) ==
  /\ pc[p] = "attach"
  /\ stage' = Upd(stage, p, "AttachResume")
  /\ \E c \in UploadConfigsTried, e \in UploadEnvsMet :
       LET out == handleFileUploads(c, e) IN
       /\ attached' = Upd(attached, p, out.files \notin {"none", "emptyFile"})
       /\ IF out.threw THEN Throw(p, "upload")
                       ELSE pc' = Upd(pc, p, "submit") /\ UNCHANGED err
  /\ UNCHANGED <<envVars, ledger, attemptFrame, tried, preStatus, navigated, filled,
                 submitClicks, appended, result, success, over, indicators, errorMessage>>

\* page.$(submit selectors); submitButton.click()
Submit(p) ==
  /\ pc[p] = "submit"
  /\ stage' = Upd(stage, p, "Submit")
  /\ \E control \in {"absent", "clicked", "clickThrows"} :
       /\ submitClicks' = Upd(submitClicks, p,
            IF control = "absent" THEN submitClicks[p] ELSE submitClicks[p] + 1)
       /\ CASE control = "absent" -> Throw(p, "noSubmit")
            [] control = "clickThrows" -> Throw(p, "click")
            [] control = "clicked" -> pc' = Upd(pc, p, "verify") /\ UNCHANGED err
  /\ UNCHANGED <<attached, envVars, ledger, attemptFrame, tried, preStatus, navigated, filled,
                 appended, result, success, over, indicators, errorMessage>>

\* A test that takes any indicator, or none, for the success indicator.
SuccessIndicatorAny(shown) == TRUE

\* const successIndicator = await this.page.$('.success, .confirmation,
\* [data-testid="success"]'); if (successIndicator) ...
SuccessIndicator(shown) == "success" \in shown

\* The wait after the click, then page.$('.success, .confirmation,
\* [data-testid="success"]'); shown is what the page shows then, and no
\* other indicator than the success indicator is looked for.
VerifyOutcome(p) ==
  /\ pc[p] = "verify"
  /\ stage' = Upd(stage, p, "VerifyOutcome")
  /\ \E shown \in SUBSET {"validation", "success"} :
       LET successIndicator == SuccessIndicator(shown) IN
       /\ indicators' = Upd(indicators, p, shown)
       /\ IF successIndicator THEN pc' = Upd(pc, p, "logApplied") /\ UNCHANGED err
                              ELSE Throw(p, "noSuccess")
  /\ UNCHANGED <<attached, envVars, ledger, attemptFrame, tried, preStatus, navigated, filled,
                 submitClicks, appended, result, success, over, errorMessage>>

\* await supabaseManager.logApplication({... status: 'applied'}) and the
\* return of the 'applied' result.
LogApplied(p) ==
  /\ pc[p] = "logApplied"
  /\ \E storeOk \in BOOLEAN :
       LET r == Row(CurUser(p), CurJob(p), "applied") IN
       /\ ledger' = logApplication(ledger, r, storeOk)
       /\ IF logApplicationOk(ledger, r, storeOk)
            THEN /\ result' = Upd(result, p, AppliedResult.status)
                 /\ success' = Upd(success, p, AppliedResult.success)
                 /\ pc' = Upd(pc, p, "attemptEnd")
                 /\ \E late \in BOOLEAN : Elapsed(p, late)
                 /\ UNCHANGED err
            ELSE /\ Throw(p, "logFailed")
                 /\ UNCHANGED <<result, success, over>>
       /\ appended' = Upd(appended, p, appended[p] + Grown(ledger, ledger'))
  /\ indicators' = Upd(indicators, p, {})
  /\ attached' = Upd(attached, p, FALSE)
  /\ UNCHANGED <<attemptFrame, tried, preStatus, navigated, filled, submitClicks, stage,
                 errorMessage>>

\* A catch block that records the failed attempt as 'skipped'.
CatchStatusSkipped == "skipped"

\* status: 'error' of the record the catch block of applyToJob writes
CatchStatus == "error"

\* The catch block: the timeout test, logApplication({... status: 'error',
\* error_message: error.message}), then the 'error' result with the same
\* message; a failing logApplication leaves applyToJob by throwing.
CatchError(p) ==
  /\ pc[p] = "catch"
  /\ \E late \in BOOLEAN :
       /\ Elapsed(p, late)
       /\ errorMessage' = Upd(errorMessage, p, CaughtMessage(err[p], late))
  /\ \E storeOk \in BOOLEAN :
       LET r == Row(CurUser(p), CurJob(p), CatchStatus) IN
       /\ ledger' = logApplication(ledger, r, storeOk)
       /\ IF logApplicationOk(ledger, r, storeOk)
            THEN /\ result' = Upd(result, p, ErrorResult.status)
                 /\ success' = Upd(success, p, ErrorResult.success)
            ELSE /\ result' = Upd(result, p, "threw")
                 /\ UNCHANGED success
       /\ appended' = Upd(appended, p, appended[p] + Grown(ledger, ledger'))
       /\ pc' = Upd(pc, p, "attemptEnd")
  /\ indicators' = Upd(indicators, p, {})
  /\ attached' = Upd(attached, p, FALSE)
  /\ UNCHANGED <<attemptFrame, tried, preStatus, navigated, filled, submitClicks, err,
                 stage>>

\* ------------------------------------------- processUser, the apply loop
\* A loop body whose catch leaves the loop.
NextJobIdxAbort(idx, len, res) == IF res = "threw" THEN len + 1 ELSE idx + 1

\* A loop that attempts a posting again after an 'error' result.
NextJobIdxRetry(idx, len, res) == IF res = "error" THEN idx ELSE idx + 1

\* for (const job of jobsToApply) { try { ... } catch { errorCount++ } }:
\* the index of the posting attempted after the one at idx ended with res.
NextJobIdx(idx, len, res) == idx + 1

AdvanceJob(p, res) ==
  LET n == NextJobIdx(jobIdx[p], Len(jobs[p]), res) IN
  /\ jobIdx' = Upd(jobIdx, p, n)
  /\ pc' = Upd(pc, p, IF n <= Len(jobs[p]) THEN "dupCheck" ELSE "updateLast")

\* applyToJob is back in the loop body: the result is counted and the
\* pacing delay follows; a thrown exception goes to the catch of the loop
\* body, which goes on with the next posting.
ApplyLoopContinue(p) ==
  /\ pc[p] = "attemptEnd"
  /\ lastOutcome' = Upd(lastOutcome, p, result[p])
  /\ ResetAttempt(p)
  /\ IF result[p] = "threw"
       THEN AdvanceJob(p, result[p])
       ELSE pc' = Upd(pc, p, "delay") /\ UNCHANGED jobIdx
  /\ UNCHANGED <<envVars, ledger, isRunning, lastTick, sessionVars, runVars, jobs, tried,
                 searched, exitCode>>

\* await this.delay(2000 + Math.random() * 3000)
Delay(p) ==
  /\ pc[p] = "delay"
  /\ AdvanceJob(p, lastOutcome[p])
  /\ UNCHANGED <<envVars, ledger, isRunning, lastTick, sessionVars, runVars, jobs, tried,
                 lastOutcome, attemptVars, searched, exitCode>>

\* await supabaseManager.updateLastAutoApplied(userConfig.id); an error is
\* logged and rethrown by processUser.
UpdateLastAutoApplied(p) ==
  /\ pc[p] = "updateLast"
  /\ \E storeOk \in BOOLEAN :
       lastUserResult' = Upd(lastUserResult, p,
         IF storeOk THEN "returned" ELSE "threw")
  /\ pc' = Upd(pc, p, "userEnd")
  /\ UNCHANGED <<envVars, ledger, isRunning, lastTick, sessionVars, batchVars, attemptVars,
                 userIdArg, users, userIdx, runOutcome, invoked, searched, exitCode>>

\* A user loop whose catch leaves the loop.
NextUserIdxAbort(idx, len, res) == IF res = "threw" THEN len ELSE idx + 1

\* try { await this.processUser(userConfig) } catch { continue }: the
\* number of users done after the one at idx ended with res.
NextUserIdx(idx, len, res) == idx + 1

ProcessUserEnd(p) ==
  /\ pc[p] = "userEnd"
  /\ userIdx' = Upd(userIdx, p,
       NextUserIdx(userIdx[p], Len(users[p]), lastUserResult[p]))
  /\ pc' = Upd(pc, p, "userLoop")
  /\ ResetBatch(p)
  /\ searched' = Upd(searched, p, "none")
  /\ UNCHANGED <<envVars, ledger, isRunning, lastTick, sessionVars, attemptVars,
                 userIdArg, users, runOutcome, invoked, lastUserResult, exitCode>>

\* ------------------------------------------ PlaywrightJobApplicator.cleanup
\* page.close(), context.close(), browser.close() in one try block: each is
\* called when its field is set, the field is nulled after the close, and
\* the close named by failAt throws, which skips the rest.
cleanup(b, c, pg, failAt) ==
  LET pageThrows == pg = "live" /\ failAt = "page"
      ctxThrows == ~pageThrows /\ c = "live" /\ failAt = "context"
      brReached == ~pageThrows /\ ~ctxThrows
      brThrows == brReached /\ b = "live" /\ failAt = "browser"
  IN [page |-> IF pageThrows THEN pg ELSE "null",
      context |-> IF pageThrows \/ ctxThrows THEN c ELSE "null",
      browser |-> IF brReached /\ ~brThrows THEN "null" ELSE b]

\* A finally block that leaves the guard set.
isRunningAfterRunKept == TRUE

\* this.isRunning = false, the last statement of the finally block of
\* runAutoApplyJob; cleanup catches what its closes throw, so the statement
\* is reached.
isRunningAfterRun == FALSE

\* finally { await this.playwrightApplicator.cleanup(); this.isRunning = false }
\* (runManualJob: cleanup only, then main goes on to process.exit).
RunFinally(p) ==
  /\ pc[p] = "finally"
  /\ \E failAt \in {"none", "page", "context", "browser"} :
       LET after == cleanup(browser[p], context[p], page[p], failAt) IN
       /\ browser' = Upd(browser, p, after.browser)
       /\ context' = Upd(context, p, after.context)
       /\ page' = Upd(page, p, after.page)
  /\ isRunning' = IF p = "sched" THEN Upd(isRunning, p, isRunningAfterRun) ELSE isRunning
  /\ pc' = Upd(pc, p, IF p = "sched" THEN "idle" ELSE "exit")
  /\ UNCHANGED <<envVars, ledger, lastTick, runVars, batchVars, attemptVars, searched, exitCode>>

\* A runManualJob whose catch block rethrows what the try block threw.
runManualJobRethrows(outcome) == outcome \in {"storeError", "initError"}

\* runManualJob: catch (error) { logger.error(...) } finally { cleanup() };
\* cleanup catches what its closes throw, so nothing leaves runManualJob.
runManualJobThrows(outcome) == FALSE

\* main: await runManualJob(userId); process.exit(0), and process.exit(1)
\* in the catch block of main.  The process and its browser are gone, a
\* later manual run is a new process.
ManualExit(p) ==
  /\ p = "manual"
  /\ pc[p] = "exit"
  /\ exitCode' = Upd(exitCode, p, IF runManualJobThrows(runOutcome[p]) THEN 1 ELSE 0)
  /\ pc' = Upd(pc, p, "idle")
  /\ browser' = Upd(browser, p, "null")
  /\ context' = Upd(context, p, "null")
  /\ page' = Upd(page, p, "null")
  /\ UNCHANGED <<envVars, ledger, isRunning, lastTick, runVars, batchVars, attemptVars,
                 searched>>

RunInFlight(p) == pc[p] \notin {"idle", "exit", "killed"}

\* process.on('SIGINT' / 'SIGTERM'): stopScheduler(), which only logs, then
\* process.exit(0).  The memory of the process is gone; browser, context
\* and page stand for the browser the process had launched, which the
\* handler leaves as it is.
Signal(p) ==
  /\ p \in alive
  /\ pc[p] # "killed"
  /\ p = "manual" => pc[p] # "idle"
  /\ pc' = Upd(pc, p, "killed")
  /\ exitCode' = Upd(exitCode, p, 0)
  /\ runOutcome' = Upd(runOutcome, p,
       IF RunInFlight(p) THEN "interrupted" ELSE runOutcome[p])
  /\ isRunning' = Upd(isRunning, p, FALSE)
  /\ users' = Upd(users, p, << >>)
  /\ userIdx' = Upd(userIdx, p, 0)
  /\ invoked' = Upd(invoked, p, << >>)
  /\ lastUserResult' = Upd(lastUserResult, p, "none")
  /\ searched' = Upd(searched, p, "none")
  /\ ResetBatch(p)
  /\ ResetAttempt(p)
  /\ UNCHANGED <<envVars, ledger, lastTick, sessionVars, userIdArg>>

Next ==
  \E p \in Procs :
    \/ CronTick(p)
    \/ ManualStart(p)
    \/ GetUsers(p)
    \/ Initialize(p)
    \/ RunLoop(p)
    \/ ProcessUserSearch(p)
    \/ DuplicateCheck(p)
    \/ Navigate(p)
    \/ LocateApplyControl(p)
    \/ OpenForm(p)
    \/ FillFields(p)
    \/ AttachResume(p)
    \/ Submit(p)
    \/ VerifyOutcome(p)
    \/ LogApplied(p)
    \/ CatchError(p)
    \/ ApplyLoopContinue(p)
    \/ Delay(p)
    \/ UpdateLastAutoApplied(p)
    \/ ProcessUserEnd(p)
    \/ RunFinally(p)
    \/ ManualExit(p)
    \/ Signal(p)

Spec == Init /\ [][Next]_vars

SpecTwo == InitTwo /\ [][Next]_vars

\* ====================================================================
\* Functions applied on their own
\* ====================================================================
\* A text is a sequence of tokens: words, "," and " ".  A word stands for
\* its letters, so two texts share letters only where they share a word.
Lower(token) ==
  CASE token = "Acme" -> "acme"
    [] token = "ACME" -> "acme"
    [] token = "Secret" -> "secret"
    [] token = "Yes" -> "yes"
    [] token = "No" -> "no"
    [] token = "Maybe" -> "maybe"
    [] OTHER -> token

\* A toLowerCase that leaves the text as it is.
toLowerCaseIdentity(text) == text

\* String.prototype.toLowerCase
toLowerCase(text) == [i \in 1..Len(text) |-> Lower(text[i])]

\* String.prototype.includes: the empty text is included in every text.
includes(text, sub) ==
  \E i \in 0..(Len(text) - Len(sub)) : SubSeq(text, i + 1, i + Len(sub)) = sub

RECURSIVE split(_, _)
\* String.prototype.split(sep): the pieces between the separators, the
\* empty ones included; the empty text gives one empty piece.
split(text, sep) ==
  IF \A i \in 1..Len(text) : text[i] # sep
    THEN <<text>>
    ELSE LET k == CHOOSE i \in 1..Len(text) :
                    text[i] = sep /\ \A m \in 1..(i - 1) : text[m] # sep
         IN <<SubSeq(text, 1, k - 1)>> \o split(SubSeq(text, k + 1, Len(text)), sep)

RECURSIVE trim(_)
\* String.prototype.trim
trim(text) ==
  IF text # << >> /\ Head(text) = " " THEN trim(Tail(text))
  ELSE IF text # << >> /\ text[Len(text)] = " "
    THEN trim(SubSeq(text, 1, Len(text) - 1))
    ELSE text

\* value.toLowerCase().split(',').map(c => c.trim())
SplitList(value) ==
  LET pieces == split(toLowerCase(value), ",")
  IN [i \in 1..Len(pieces) |-> trim(pieces[i])]

\* const securityKeywords = [...]
securityKeywords ==
  << <<"security", " ", "clearance">>, <<"clearance">>, <<"secret">>,
     <<"top", " ", "secret">>, <<"ts/sci">> >>

\* The callback of jobs.filter in filterJobs returns false: the three tests,
\* each made only when the field of userConfig is truthy (a text that is
\* not empty, a true flag).
Excluded(job, userConfig) ==
  \/ /\ userConfig.blacklisted_companies # << >>
     /\ LET blacklisted == SplitList(userConfig.blacklisted_companies) IN
        \E i \in 1..Len(blacklisted) :
          includes(toLowerCase(job.company), blacklisted[i])
  \/ /\ userConfig.skip_keywords # << >>
     /\ LET skipKeywords == SplitList(userConfig.skip_keywords)
            jobText == toLowerCase(job.title \o <<" ">> \o job.company \o <<" ">>
                                   \o job.description)
        IN \E i \in 1..Len(skipKeywords) : includes(jobText, skipKeywords[i])
  \/ /\ userConfig.skip_security_clearance
     /\ LET jobText == toLowerCase(job.title \o <<" ">> \o job.description) IN
        \E i \in 1..Len(securityKeywords) : includes(jobText, securityKeywords[i])

\* The texts of at most n tokens of an alphabet.
Texts(alphabet, n) == UNION {[1..k -> alphabet] : k \in 0..n}

\* The postings and the rule sets filterJobs is applied to.
FilterJobsTried ==
  [title : {<<"x">>, <<"Secret">>},
   company : {<<"ACME", " ", "corp">>, <<"secret">>, <<"y">>},
   description : {<< >>, <<"clearance">>}]

FilterConfigsTried ==
  [blacklisted_companies : Texts({"Acme", "x", ",", " "}, MaxTokens),
   skip_keywords : Texts({"x", ","}, MaxTokens),
   skip_security_clearance : BOOLEAN]

\* The results array of the page.evaluate callback of searchJobs for the
\* elements of a page with the urls r, in page order; the title tells the
\* elements apart.
Results(r) == [i \in 1..Len(r) |-> [url |-> r[i], title |-> i]]

\* The url of the next element of a page: one not seen before, or the one
\* seen before the newest.
NextUrls(r) ==
  IF r = << >> THEN {1}
  ELSE LET m == Max(Range(r)) IN {m + 1, IF m > 1 THEN m - 1 ELSE 1}

RECURSIVE PagesOf(_)
\* The pages of n elements.
PagesOf(n) ==
  IF n = 0 THEN {<< >>}
  ELSE UNION {{Append(r, u) : u \in NextUrls(r)} : r \in PagesOf(n - 1)}

\* The pages of at most n elements.
RawUrls(n) == UNION {PagesOf(k) : k \in 0..n}

\* self.findIndex(j => j.url === job.url)
findIndex(self, url) ==
  CHOOSE k \in 1..Len(self) :
    self[k].url = url /\ \A m \in 1..(k - 1) : self[m].url # url

\* results.filter((job, index, self) =>
\*   index === self.findIndex(j => j.url === job.url)), from index on
RECURSIVE FilterByIndex(_, _)
FilterByIndex(self, index) ==
  IF index > Len(self) THEN << >>
  ELSE (IF index = findIndex(self, self[index].url) THEN <<self[index]>> ELSE << >>)
         \o FilterByIndex(self, index + 1)

uniqueJobs(results) == FilterByIndex(results, 1)

\* A callback that caps before it removes the duplicates.
evaluateJobsCapFirst(results) == uniqueJobs(Slice(results, MaxUniqueJobs))

\* What the page.evaluate callback of searchJobs returns:
\* uniqueJobs.slice(0, 10)
evaluateJobs(results) == Slice(uniqueJobs(results), MaxUniqueJobs)

\* ------- PlaywrightJobApplicator.handleRemainingFieldsAndYesNoSelectors
\* The radio inputs of a form and what the function does to them.  A form
\* is a sequence of groups in document order; a group has the text of its
\* question and its options in document order, an option the value of its
\* input and the text of its label.  The radio <<g, k>> is option k of
\* group g; the radios of a group share a name that no other group has.
\* form.stuck are the radios whose click throws.
RadiosOf(form, g) == [k \in 1..Len(form.groups[g].options) |-> <<g, k>>]

RECURSIVE RadiosFrom(_, _)
RadiosFrom(form, g) ==
  IF g > Len(form.groups) THEN << >> ELSE RadiosOf(form, g) \o RadiosFrom(form, g + 1)

\* page.$$('input[type="radio"]'): the radios in document order.
Radios(form) == RadiosFrom(form, 1)

OptionOf(form, r) == form.groups[r[1]].options[r[2]]

\* What the browser does on a click on a radio: it is checked and the other
\* radios of its group are not.
click(checked, r) == {x \in checked : x[1] # r[1]} \cup {r}

\* The selectors of yesNoSelectors that are on the value of a radio input,
\* in the order of the list: whether selector n matches an input of this
\* value.
NumRadioSelectors == 11

RadioSelectorMatches(n, value) ==
  LET has(word) == includes(toLowerCase(value), <<word>>) IN
  CASE n = 1 -> has("yes")
    [] n = 2 -> has("true")
    [] n = 3 -> value = <<"1">>
    [] n = 4 -> value = <<"Yes">>
    [] n = 5 -> value = <<"YES">>
    [] n = 6 -> /\ ~has("no") /\ ~has("false")
                /\ value \notin {<<"0">>, <<"No">>, <<"NO">>}
    [] n = 7 -> has("authorized")
    [] n = 8 -> has("eligible")
    [] n = 9 -> has("sponsorship")
    [] n = 10 -> has("work")
    [] n = 11 -> has("legal")

\* The loop over the elements of one selector of yesNoSelectors, from
\* element i on: a radio that is not checked is clicked; a click that
\* throws ends the loop (the catch block of the selector).
RECURSIVE clickUnchecked(_, _, _, _)
clickUnchecked(form, elements, i, checked) ==
  IF i > Len(elements) THEN checked
  ELSE IF elements[i] \in checked THEN clickUnchecked(form, elements, i + 1, checked)
  ELSE IF elements[i] \in form.stuck THEN checked
  ELSE clickUnchecked(form, elements, i + 1, click(checked, elements[i]))

\* Step 1, from selector n on.
RECURSIVE yesNoSelectorsFrom(_, _, _)
yesNoSelectorsFrom(form, n, checked) ==
  IF n > NumRadioSelectors THEN checked
  ELSE LET elements == SelectSeq(Radios(form),
                                 LAMBDA r : RadioSelectorMatches(n, OptionOf(form, r).value))
       IN yesNoSelectorsFrom(form, n + 1, clickUnchecked(form, elements, 1, checked))

\* The test for a "Yes" option of step 1.5, on the value of the input and
\* the text of its label.
IsYesOption(value, text) ==
  \/ includes(toLowerCase(value), <<"yes">>)
  \/ includes(toLowerCase(value), <<"true">>)
  \/ value \in {<<"1">>, <<"Yes">>, <<"YES">>}
  \/ includes(toLowerCase(text), <<"yes">>)
  \/ includes(toLowerCase(text), <<"true">>)

\* The test for an option that is not "No" of step 1.5.
IsNotNoOption(value, text) ==
  /\ ~includes(toLowerCase(value), <<"no">>)
  /\ ~includes(toLowerCase(value), <<"false">>)
  /\ value \notin {<<"0">>, <<"No">>, <<"NO">>}
  /\ ~includes(toLowerCase(text), <<"no">>)
  /\ ~includes(toLowerCase(text), <<"false">>)

\* The places of the options of a group that pass a test, and yesOption of
\* step 1.5: the first "Yes" option, or else the first that is not "No"; 0
\* for none.
YesPlaces(options) ==
  {k \in DOMAIN options : IsYesOption(options[k].value, options[k].label)}

NotNoPlaces(options) ==
  {k \in DOMAIN options : IsNotNoOption(options[k].value, options[k].label)}

FirstPlace(S) == IF S = {} THEN 0 ELSE CHOOSE k \in S : \A m \in S : k <= m

yesOption(options) ==
  IF YesPlaces(options) # {} THEN FirstPlace(YesPlaces(options))
  ELSE FirstPlace(NotNoPlaces(options))

\* Step 1.5, from group g on.  The whole loop is in one try block: a click
\* that throws ends the step.
RECURSIVE radioGroupsFrom(_, _, _)
radioGroupsFrom(form, g, checked) ==
  IF g > Len(form.groups) THEN checked
  ELSE LET k == yesOption(form.groups[g].options) IN
       IF k = 0 \/ <<g, k>> \in checked THEN radioGroupsFrom(form, g + 1, checked)
       ELSE IF <<g, k>> \in form.stuck THEN checked
       ELSE radioGroupsFrom(form, g + 1, click(checked, <<g, k>>))

\* const authKeywords = [...]
authKeywords ==
  << <<"authorized">>, <<"authorization">>, <<"legally">>, <<"legal">>,
     <<"sponsorship">>, <<"sponsor">>, <<"work", " ", "permit">>, <<"visa">>,
     <<"citizenship">>, <<"eligible">>, <<"eligibility">>,
     <<"work", " ", "authorization">>, <<"employment", " ", "authorization">>,
     <<"legally", " ", "authorized", " ", "to", " ", "work">>,
     <<"without", " ", "sponsorship">> >>

RECURSIVE join(_)
\* Array.prototype.join(' ')
join(texts) ==
  IF texts = << >> THEN << >>
  ELSE IF Len(texts) = 1 THEN texts[1]
  ELSE texts[1] \o <<" ">> \o join(Tail(texts))

\* textContent of the element that holds the question of a group and its
\* options with their labels.
ContainerText(group) ==
  join(<<group.question>> \o [k \in 1..Len(group.options) |-> group.options[k].label])

\* context.text of step 4 for a radio: the texts of its parent, of its
\* grandparent, of its label and of the closest div and section, joined and
\* in lower case.  In the forms tried the label of an option is next to its
\* input in an element of its own, inside the element of the group.
ContextText(form, r) ==
  LET label == OptionOf(form, r).label
      container == ContainerText(form.groups[r[1]])
  IN toLowerCase(join(<<label, container, label, label, container>>))

isAuthQuestion(text) ==
  \E i \in 1..Len(authKeywords) : includes(text, authKeywords[i])

\* The test of step 4 for clicking a radio of an authorization question.
AuthYes(value, text) ==
  \/ includes(toLowerCase(value), <<"yes">>)
  \/ includes(toLowerCase(value), <<"true">>)
  \/ value \in {<<"1">>, <<"Yes">>, <<"YES">>}
  \/ includes(toLowerCase(text), <<"yes">>)
  \/ includes(toLowerCase(text), <<"true">>)

\* Step 4 over the radios, from element i on.  The whole step is in one try
\* block: a click that throws ends it.
RECURSIVE authorizationFrom(_, _, _, _)
authorizationFrom(form, elements, i, checked) ==
  IF i > Len(elements) THEN checked
  ELSE LET r == elements[i]
           text == ContextText(form, r)
       IN IF /\ isAuthQuestion(text)
             /\ AuthYes(OptionOf(form, r).value, text)
             /\ r \notin checked
            THEN IF r \in form.stuck THEN checked
                 ELSE authorizationFrom(form, elements, i + 1, click(checked, r))
            ELSE authorizationFrom(form, elements, i + 1, checked)

\* The radios checked when handleRemainingFieldsAndYesNoSelectors is over,
\* none being checked before: steps 1, 1.5 and 4 in that order (steps 2 and
\* 3 are on text inputs and on select elements).  after15 is what is
\* checked when step 1.5 is over.
selectRadios(form) ==
  LET after1 == yesNoSelectorsFrom(form, 1, {})
      after15 == radioGroupsFrom(form, 1, after1)
  IN [after15 |-> after15,
      checked |-> authorizationFrom(form, Radios(form), 1, after15)]

\* The forms tried.  MaxOptions is a bound: the most options of a group.
OptionsTried ==
  {[value |-> <<"yes">>, label |-> <<"Yes">>],
   [value |-> <<"no">>, label |-> <<"No">>],
   [value |-> <<"maybe">>, label |-> <<"Maybe">>],
   [value |-> <<"a">>, label |-> <<"Yes">>],
   [value |-> <<"1">>, label |-> <<"Agree">>],
   [value |-> <<"0">>, label |-> <<"Decline">>],
   [value |-> <<"no", "_", "sponsorship">>, label |-> <<"No">>]}

QuestionsTried ==
  {<<"remote", "?">>, <<"authorized", " ", "to", " ", "work", "?">>}

\* The groups of at most n options, no option twice.
GroupsTried(n) ==
  {[question |-> q, options |-> o] :
     q \in QuestionsTried,
     o \in {x \in UNION {[1..m -> OptionsTried] : m \in 1..n} :
              \A i, j \in DOMAIN x : x[i] = x[j] => i = j}}

\* The groups that come before the group tried: none, or a group Yes/No.
GroupsBefore ==
  {<< >>} \cup {<<[question |-> q,
                   options |-> <<[value |-> <<"yes">>, label |-> <<"Yes">>],
                                 [value |-> <<"no">>, label |-> <<"No">>]>>]>> :
                q \in QuestionsTried}

\* ------------------------------------------ OpenAIManager.generateAnswer
\* A value of the program that is a text or undefined.  A text is a sequence
\* of tokens, as above.
Undefined == [kind |-> "undefined"]
String(text) == [kind |-> "string", text |-> text]

\* if (!x): undefined and the empty text are falsy.
Falsy(x) == x.kind = "undefined" \/ x.text = << >>

\* The tokens of the replies tried: white space, a word, and the JSON texts
\* null, 7, {}, {"answer": ""} and {"answer": "yes"}.
ReplyTokens == {" ", "w", "null", "7", "{}", "{answer:}", "{answer:yes}"}

\* JSON.parse(text): white space around the value is skipped; the text of
\* one JSON value is parsed to that value (7 77 ... are numbers), any other
\* text throws a SyntaxError.
JSONparse(text) ==
  LET t == trim(text) IN
  IF t # << >> /\ \A i \in 1..Len(t) : t[i] = "7"
    THEN [threw |-> FALSE, value |-> "7"]
  ELSE IF Len(t) = 1 /\ t[1] \in {"null", "{}", "{answer:}", "{answer:yes}"}
    THEN [threw |-> FALSE, value |-> t[1]]
    ELSE [threw |-> TRUE]

\* parsedResponse.answer: a TypeError on null, undefined on a number and on
\* an object without the member.
AnswerOf(value) ==
  CASE value = "null" -> [threw |-> TRUE]
    [] value = "{answer:}" -> [threw |-> FALSE, answer |-> String(<< >>)]
    [] value = "{answer:yes}" -> [threw |-> FALSE, answer |-> String(<<"yes">>)]
    [] OTHER -> [threw |-> FALSE, answer |-> Undefined]

\* The answer of the inner catch block: the reply itself, trimmed.  First an
\* inner catch block that answers with the empty text.
RawAnswerEmpty(response) == String(<< >>)

RawAnswer(response) == String(trim(response))

\* The answer of the outer catch block.
FallbackAnswer == String(<<"Not specified">>)

\* generateAnswer(question, userConfig): service.create is whether
\* client.chat.completions.create returns, service.content is
\* completion.choices[0]?.message?.content.  confidence is in tenths.
generateAnswer(service) ==
  IF service.create = "throws" \/ Falsy(service.content)
    THEN [answer |-> FallbackAnswer, confidence |-> 0, threw |-> FALSE]
    ELSE LET response == service.content.text
             parsed == JSONparse(response)
             member == IF parsed.threw THEN [threw |-> TRUE] ELSE AnswerOf(parsed.value)
         IN IF member.threw
              THEN [answer |-> RawAnswer(response), confidence |-> 7, threw |-> FALSE]
              ELSE [answer |-> member.answer, confidence |-> 8, threw |-> FALSE]

\* getValue(label, fallbackKey) of fillAllFieldsWithAI; configured is
\* userConfig[fallbackKey], undefined when no key is passed.
getValue(configured, service) ==
  LET value == IF Falsy(configured) THEN generateAnswer(service).answer ELSE configured
  IN IF Falsy(value) THEN << >> ELSE value.text

\* userConfig.email || await getValue('Email'), and the like: the value
\* that goes to robustFill for a field.
FieldValue(profile, service) ==
  IF Falsy(profile) THEN getValue(Undefined, service) ELSE profile.text

\* The outcomes of the service and the profile values tried.
ServicesTried(n) ==
  {[create |-> "throws", content |-> Undefined],
   [create |-> "returns", content |-> Undefined]}
    \cup {[create |-> "returns", content |-> String(t)] : t \in Texts(ReplyTokens, n)}

ProfileValuesTried == {Undefined, String(<< >>), String(<<"v">>)}

\* The urls of the postings the tests of filterJobs reject, in the calls of
\* processUser tried.
ExcludedTried == SUBSET {1, 5, 11}

\* The calls that are tried: a function and its arguments.
FnCall(args) ==
  \/ \E j \in FilterJobsTried, c \in FilterConfigsTried :
       args = [fn |-> "filterJobs", jobs |-> <<j>>, userConfig |-> c]
  \/ \E r \in RawUrls(MaxRaw) : args = [fn |-> "searchJobs", results |-> Results(r)]
  \/ \E c \in UploadConfigsTried, e \in UploadEnvsTried :
       args = [fn |-> "handleFileUploads", userConfig |-> c, env |-> e]
  \/ \E odd \in {T \in SUBSET RobustLabels : Cardinality(T) <= MaxOdd} :
       \E g \in [odd -> OddFields], ph \in PhonesTried, sw \in SweepsTried :
         args = [fn |-> "fillAllFieldsWithAI", env |-> FormOf(odd, g, ph, sw)]
  \/ \E before \in GroupsBefore, group \in GroupsTried(MaxOptions) :
       \E stuck \in {{}} \cup {{<<g, k>>} : g \in 1..2, k \in 1..MaxOptions} :
         /\ \A r \in stuck : /\ r[1] <= Len(before) + 1
                             /\ r[2] <= Len((before \o <<group>>)[r[1]].options)
         /\ args = [fn |-> "selectRadios",
                    form |-> [groups |-> before \o <<group>>, stuck |-> stuck]]
  \/ \E r \in RawUrls(MaxRaw), x \in ExcludedTried :
       args = [fn |-> "processUser", results |-> Results(r), excluded |-> x]
  \/ \E sv \in ServicesTried(MaxTokens) :
       args = [fn |-> "generateAnswer", service |-> sv]
  \/ \E pv \in ProfileValuesTried, sv \in ServicesTried(MaxTokens) :
       args = [fn |-> "getValue", profile |-> pv, service |-> sv]
  \/ \E l \in RobustLabels, top \in BOOLEAN :
       \E o \in [1..SelectorCount[l] -> SelectorOutcomes] :
         args = [fn |-> "robustFill", label |-> l,
                 field |-> [top |-> top, selectors |-> o]]

\* No process of the program runs; one function is applied to arguments.
InitFn ==
  /\ alive = {} /\ autoApplyUsers = {} /\ listed = {}
  /\ InitProcs
  /\ FnCall(fnArgs)
  /\ fnResult = [done |-> FALSE]

fnFrame == <<alive, autoApplyUsers, listed, fnArgs, ledger, isRunning, pc, lastTick,
             sessionVars, runVars, batchVars, attemptVars, searched, exitCode>>

ApplyFilterJobs ==
  /\ fnArgs.fn = "filterJobs" /\ ~fnResult.done
  /\ fnResult' = [done |-> TRUE,
                  value |-> filterJobs(fnArgs.jobs,
                                       {j \in Range(fnArgs.jobs) :
                                          Excluded(j, fnArgs.userConfig)})]
  /\ UNCHANGED fnFrame

ApplyEvaluateJobs ==
  /\ fnArgs.fn = "searchJobs" /\ ~fnResult.done
  /\ fnResult' = [done |-> TRUE, value |-> evaluateJobs(fnArgs.results)]
  /\ UNCHANGED fnFrame

ApplyHandleFileUploads ==
  /\ fnArgs.fn = "handleFileUploads" /\ ~fnResult.done
  /\ fnResult' = [done |-> TRUE,
                  value |-> handleFileUploads(fnArgs.userConfig, fnArgs.env)]
  /\ UNCHANGED fnFrame

ApplyFillAllFieldsWithAI ==
  /\ fnArgs.fn = "fillAllFieldsWithAI" /\ ~fnResult.done
  /\ fnResult' = [done |-> TRUE, value |-> fillAllFieldsWithAI(fnArgs.env)]
  /\ UNCHANGED fnFrame

ApplyRobustFill ==
  /\ fnArgs.fn = "robustFill" /\ ~fnResult.done
  /\ fnResult' = [done |-> TRUE, value |-> robustFill(fnArgs.label, fnArgs.field)]
  /\ UNCHANGED fnFrame

ApplySelectRadios ==
  /\ fnArgs.fn = "selectRadios" /\ ~fnResult.done
  /\ fnResult' = [done |-> TRUE, value |-> selectRadios(fnArgs.form)]
  /\ UNCHANGED fnFrame

\* processUser from searchJobs to jobsToApply, on a search page with the
\* elements fnArgs.results.
ApplyJobsToApply ==
  /\ fnArgs.fn = "processUser" /\ ~fnResult.done
  /\ LET found == evaluateJobs(fnArgs.results)
     IN fnResult' =
          [done |-> TRUE,
           value |-> jobsToApply(found, {j \in Range(found) : j.url \in fnArgs.excluded})]
  /\ UNCHANGED fnFrame

ApplyGenerateAnswer ==
  /\ fnArgs.fn = "generateAnswer" /\ ~fnResult.done
  /\ fnResult' = [done |-> TRUE, value |-> generateAnswer(fnArgs.service)]
  /\ UNCHANGED fnFrame

ApplyGetValue ==
  /\ fnArgs.fn = "getValue" /\ ~fnResult.done
  /\ fnResult' = [done |-> TRUE, value |-> FieldValue(fnArgs.profile, fnArgs.service)]
  /\ UNCHANGED fnFrame

NextFn ==
  \/ ApplyFilterJobs
  \/ ApplyEvaluateJobs
  \/ ApplyHandleFileUploads
  \/ ApplyFillAllFieldsWithAI
  \/ ApplyRobustFill
  \/ ApplyGenerateAnswer
  \/ ApplyGetValue
  \/ ApplySelectRadios
  \/ ApplyJobsToApply

SpecFn == InitFn /\ [][NextFn]_vars

\* ====================================================================
\* Properties
\* ====================================================================
AllRows == {Row(u, x, st) : u \in Users, x \in Urls, st \in StatusValues}

\* The guard is false exactly when no run of the scheduler process is in
\* flight (CronTick relies on it).
GuardMatchesPc == isRunning["sched"] <=> pc["sched"] \notin {"idle", "killed"}

\* C1. Duplicate invariant: for every (user, posting url) the ledger holds
\* at most one row whose status is 'applied', after any sequence of runs of
\* a scheduler process and a manual process.
DuplicateInvariant ==
  \A u \in Users, x \in Urls : CopiesIn(Row(u, x, "applied"), ledger) <= 1

\* A second 'applied' insert for a pair was rejected while the ledger holds
\* the 'applied' row of the pair.
DuplicateInvariantWitness ==
  \E p \in Procs :
    /\ pc[p] = "catch" /\ err[p] = "logFailed" /\ submitClicks[p] = 1
    /\ CopiesIn(Row(CurUser(p), CurJob(p), "applied"), ledger) = 1

\* C2 as stated: when the ledger holds an 'applied' row for (user, url) at
\* the call, applyToJob returns 'duplicate', leaves the ledger unchanged and
\* neither navigates, fills nor submits.
IdempotentRerunAsStated ==
  \A p \in Procs :
    (pc[p] = "attemptEnd" /\ preStatus[p] = "applied") =>
      /\ result[p] = "duplicate"
      /\ appended[p] = 0 /\ ~navigated[p] /\ ~filled[p] /\ submitClicks[p] = 0

\* C2 amended: when the ledger holds an 'applied' row for (user, url) at the
\* call, applyToJob adds no row and neither navigates, fills nor submits; it
\* returns 'duplicate' unless the ledger query itself failed, and then it
\* throws.
IdempotentRerun ==
  \A p \in Procs :
    (pc[p] = "attemptEnd" /\ preStatus[p] = "applied") =>
      /\ appended[p] = 0 /\ ~navigated[p] /\ ~filled[p] /\ submitClicks[p] = 0
      /\ result[p] \in {"duplicate", "threw"}
      /\ result[p] = "threw" => err[p] = "store"
      /\ CopiesIn(Row(CurUser(p), CurJob(p), "applied"), ledger) = 1

IdempotentRerunWitness ==
  \E p \in Procs :
    pc[p] = "attemptEnd" /\ preStatus[p] = "applied" /\ result[p] = "duplicate"

\* C3. Re-attempt after error: an attempt whose only prior row for
\* (user, url) has status 'error' is not classified 'duplicate'.
ReattemptAfterError ==
  \A p \in Procs :
    (pc[p] = "attemptEnd" /\ preStatus[p] = "error") => result[p] # "duplicate"

\* C4. Ledger key uniqueness: the ledger holds at most one row, of any
\* status, per (user_id, job_url).
LedgerKeyUnique ==
  \A u \in Users, x \in Urls : CountKey(ledger, u, x) <= 1

\* Both processes went through the duplicate check for the same pair before
\* either wrote, both have ended their attempt, and the pair has one row.
LedgerKeyUniqueWitness ==
  /\ pc["sched"] = "attemptEnd" /\ pc["manual"] = "attemptEnd"
  /\ CurUser("sched") = CurUser("manual") /\ CurJob("sched") = CurJob("manual")
  /\ preStatus["sched"] = "none" /\ preStatus["manual"] = "none"
  /\ navigated["sched"] /\ navigated["manual"]
  /\ CountKey(ledger, CurUser("sched"), CurJob("sched")) = 1

\* C5 as stated: on every terminal state of an attempt (applied, error or
\* duplicate) the attempt has written exactly one row.
OneRecordPerTerminalAsStated ==
  \A p \in Procs :
    (pc[p] = "attemptEnd" /\ result[p] \in {"applied", "error", "duplicate"}) =>
      appended[p] = 1

\* C5 amended: when applyToJob returns 'applied' or 'error' the attempt has
\* written exactly one row, the row of (user, url) with that status; when it
\* returns 'duplicate' it has written none; and the row of an attempt is in
\* the ledger when the attempt for the next posting begins.
OneRecordPerTerminal ==
  \A p \in Procs :
    /\ (pc[p] = "attemptEnd" /\ result[p] \in {"applied", "error"}) =>
         /\ appended[p] = 1
         /\ CopiesIn(Row(CurUser(p), CurJob(p), result[p]), ledger) = 1
    /\ (pc[p] = "attemptEnd" /\ result[p] = "duplicate") => appended[p] = 0
    /\ (pc[p] = "dupCheck" /\ jobIdx[p] >= 2
          /\ lastOutcome[p] \in {"applied", "error"}) =>
         CopiesIn(Row(CurUser(p), jobs[p][jobIdx[p] - 1], lastOutcome[p]), ledger) = 1

\* The second attempt of a batch is under way after the first one ended in
\* 'error', and another attempt has ended 'applied'.
OneRecordPerTerminalWitness ==
  \E p \in Procs :
    /\ pc[p] = "attemptEnd" /\ result[p] = "applied" /\ jobIdx[p] = 2
    /\ lastOutcome[p] = "error"

\* C6. The ledger is append-only: every step leaves it unchanged or adds one
\* row; no row is modified or removed.
LedgerAppendOnly ==
  [][/\ \A r \in AllRows : CopiesIn(r, ledger') >= CopiesIn(r, ledger)
     /\ BagCardinality(ledger') <= BagCardinality(ledger) + 1]_vars

\* The catch block tried to write an 'error' row for a pair whose 'applied'
\* row is in the ledger, and the row is still there.
LedgerAppendOnlyWitness ==
  \E p \in Procs :
    /\ pc[p] = "attemptEnd" /\ preStatus[p] = "applied" /\ result[p] = "threw"
    /\ CopiesIn(Row(CurUser(p), CurJob(p), "applied"), ledger) = 1

\* C7. At most one run is in flight at any time, a scheduled run and a
\* manual run included.
SingleRunInFlight ==
  Cardinality({p \in Procs : RunInFlight(p)}) <= 1

RunEnded(p) == pc[p] \in {"idle", "exit"} /\ runOutcome[p] # "none"

\* C8. When a run has ended, on whatever path, browser, context and page
\* have been closed and the applicator holds no live session.
SessionReleased ==
  \A p \in Procs :
    RunEnded(p) =>
      browser[p] = "null" /\ context[p] = "null" /\ page[p] = "null"

\* C9. A failure of one posting never aborts the user's batch: when
\* processUser ends, applyToJob has been invoked for every posting of
\* jobsToApply, in order, whatever the earlier calls returned or threw.
PostingFailureDoesNotAbortBatch ==
  \A p \in Procs :
    pc[p] \in {"updateLast", "userEnd"} =>
      tried[p] = jobs[p]

\* The second posting of a batch is being attempted after applyToJob threw
\* for the first one.
PostingFailureDoesNotAbortBatchWitness ==
  \E p \in Procs :
    /\ pc[p] = "navigate" /\ jobIdx[p] = 2 /\ Len(tried[p]) = 2
    /\ lastOutcome[p] = "threw"

\* C10. A user-level failure aborts only that user: when the user loop of a
\* run has ended, processUser has been invoked for every user of the list,
\* in order, whatever the earlier calls threw.
UserFailureDoesNotAbortRun ==
  \A p \in Procs :
    (pc[p] = "finally" /\ runOutcome[p] = "completed") =>
      invoked[p] = users[p]

\* processUser is invoked for the second user of a run after it threw for
\* the first one.
UserFailureDoesNotAbortRunWitness ==
  \E p \in Procs :
    /\ pc[p] = "search" /\ userIdx[p] = 1 /\ Len(invoked[p]) = 2
    /\ lastUserResult[p] = "threw"

\* C11. Bounded attempt time: an attempt that ends more than
\* applicationTimeout after it started has ended with the timeout error
\* (applyToJob returned 'error' with the timeout message); it has not gone
\* on working past the bound to another outcome.
BoundedAttemptTime ==
  \A p \in Procs :
    (pc[p] = "attemptEnd" /\ over[p]) =>
      result[p] = "error" /\ errorMessage[p] = TimeoutMessage

\* C12. Timeout override: when applyToJob returns 'error' and more than
\* applicationTimeout had elapsed at the catch block, the message of the
\* 'error' record and of the result is the timeout message, in place of the
\* message of the captured error.
TimeoutOverride ==
  \A p \in Procs :
    (pc[p] = "attemptEnd" /\ result[p] = "error" /\ over[p]) =>
      /\ errorMessage[p] = TimeoutMessage
      /\ errorMessage[p] # Message(err[p])
      /\ appended[p] = 1
      /\ CopiesIn(Row(CurUser(p), CurJob(p), "error"), ledger) = 1

\* The submit control was clicked, no success indicator was found, and the
\* attempt ended late: the record carries the timeout message.
TimeoutOverrideWitness ==
  \E p \in Procs :
    /\ pc[p] = "attemptEnd" /\ result[p] = "error" /\ over[p]
    /\ err[p] = "noSuccess" /\ submitClicks[p] = 1
    /\ errorMessage[p] = TimeoutMessage

\* C15. Discovery never throws when the listing is missing: when the
\* navigation to the search page fails or no selector of the chain appears,
\* searchJobs returns the empty list and processUser returns without an
\* applyToJob call and without a ledger write.
SearchFailureEndsUser ==
  [][\A p \in Procs :
       (pc[p] = "search" /\ searched'[p] \in {"gotoFailed", "noListing"}) =>
         /\ pc'[p] = "userEnd"
         /\ lastUserResult'[p] = "returned"
         /\ jobs'[p] = << >> /\ tried'[p] = << >>
         /\ ledger' = ledger]_vars

\* processUser has returned for the first user after a search in which no
\* selector of the chain appeared, and the run goes on.
SearchFailureEndsUserWitness ==
  \E p \in Procs :
    /\ pc[p] = "userEnd" /\ searched[p] = "noListing"
    /\ lastUserResult[p] = "returned" /\ tried[p] = << >>
    /\ Len(users[p]) >= 2

\* C17 as stated: when no form container appears within the wait of
\* OpenForm, applyToJob returns 'error' with the message that no application
\* form is available, the attempt has added exactly one 'error' row for
\* (user, url), and the form was neither filled nor submitted.
NoFormEndsInErrorAsStated ==
  \A p \in Procs :
    (pc[p] = "attemptEnd" /\ stage[p] = "OpenForm") =>
      /\ result[p] = "error"
      /\ errorMessage[p] = "No application form available"
      /\ appended[p] = 1
      /\ CopiesIn(Row(CurUser(p), CurJob(p), "error"), ledger) = 1
      /\ ~filled[p] /\ submitClicks[p] = 0

\* C17 amended: when no form container appears within the wait of OpenForm,
\* the form is neither filled nor submitted and the captured error is the
\* one saying that no application form is available.  If the 'error' row is
\* written, applyToJob returns 'error', the attempt has added exactly that
\* row, and the message is the captured one unless the attempt ended late,
\* and then it is the timeout message.  If the write fails, applyToJob
\* throws and the attempt has added no row.
NoFormEndsInError ==
  \A p \in Procs :
    (pc[p] = "attemptEnd" /\ stage[p] = "OpenForm") =>
      /\ ~filled[p] /\ submitClicks[p] = 0
      /\ Message(err[p]) = "No application form available"
      /\ result[p] \in {"error", "threw"}
      /\ result[p] = "error" =>
           /\ appended[p] = 1
           /\ CopiesIn(Row(CurUser(p), CurJob(p), "error"), ledger) = 1
           /\ errorMessage[p] = IF over[p] THEN TimeoutMessage
                                ELSE "No application form available"
      /\ result[p] = "threw" => appended[p] = 0

\* An attempt ended in time in OpenForm with the 'error' row written.
NoFormEndsInErrorWitness ==
  \E p \in Procs :
    /\ pc[p] = "attemptEnd" /\ stage[p] = "OpenForm" /\ result[p] = "error"
    /\ ~over[p] /\ errorMessage[p] = "No application form available"
    /\ appended[p] = 1 /\ navigated[p]

\* C18. When the page shows a validation-error indicator after the click on
\* the submit control, the attempt is on its error path: it is not taken for
\* a success, also when a success indicator is shown as well.
ValidationErrorEndsInError ==
  \A p \in Procs :
    "validation" \in indicators[p] => pc[p] = "catch" /\ submitClicks[p] = 1

\* C19. Manual-run mode exits with status 0 whatever happened during the
\* pass (posting failures, user-level failures, an unknown user identifier,
\* a store error), and with a user identifier processUser is invoked only
\* for users matching it.
ManualExitsZero ==
  /\ exitCode["manual"] \in {NoExit, 0}
  /\ userIdArg["manual"] # NoUser =>
       \A i \in 1..Len(invoked["manual"]) : invoked["manual"][i] = userIdArg["manual"]

\* The manual process has exited with 0 after a pass for one given user in
\* which processUser threw.
ManualExitsZeroWitness ==
  /\ pc["manual"] = "idle" /\ exitCode["manual"] = 0
  /\ userIdArg["manual"] # NoUser /\ invoked["manual"] = <<userIdArg["manual"]>>
  /\ Cardinality(autoApplyUsers) >= 2
  /\ runOutcome["manual"] = "completed" /\ lastUserResult["manual"] = "threw"

\* C20. When a termination signal arrives while a run is active, the
\* browser session of the run has been closed when the process has exited,
\* and the exit status is 0.
SignalClosesSession ==
  \A p \in Procs :
    (pc[p] = "killed" /\ runOutcome[p] = "interrupted") =>
      /\ browser[p] = "null" /\ context[p] = "null" /\ page[p] = "null"
      /\ exitCode[p] = 0

\* The entries of a comma-separated list: the stretches between its commas,
\* without the blanks at their ends (an entry can be empty).
Entries(list) ==
  LET n == Len(list)
      Stretch(a, b) ==
        /\ \A i \in a..b : list[i] # ","
        /\ a = 1 \/ list[a - 1] = ","
        /\ b = n \/ list[b + 1] = ","
      Strip(a, b) ==
        LET inked == {i \in a..b : list[i] # " "}
        IN IF inked = {} THEN << >>
           ELSE SubSeq(list, CHOOSE i \in inked : \A j \in inked : i <= j, Max(inked))
  IN UNION {{Strip(a, b) : b \in {c \in 0..n : c >= a - 1 /\ Stretch(a, c)}} :
              a \in 1..(n + 1)}

\* text contains entry, letter case apart.
ContainsCI(text, entry) ==
  \E i \in 0..(Len(text) - Len(entry)) :
    \A k \in 1..Len(entry) : Lower(text[i + k]) = Lower(entry[k])

EmployerMatches(P, R) ==
  /\ R.blacklisted_companies # << >>
  /\ \E e \in Entries(R.blacklisted_companies) : ContainsCI(P.company, e)

KeywordMatches(P, R) ==
  /\ R.skip_keywords # << >>
  /\ \E e \in Entries(R.skip_keywords) :
       ContainsCI(P.title \o <<" ">> \o P.company \o <<" ">> \o P.description, e)

ClearanceMatches(text, R) ==
  /\ R.skip_security_clearance
  /\ \E i \in 1..Len(securityKeywords) : ContainsCI(text, securityKeywords[i])

FilterApplied == fnArgs.fn = "filterJobs" /\ fnResult.done

\* C13 as stated: filterJobs([P], R) excludes P exactly when the employer
\* contains an entry of the employer blacklist, or title+employer+description
\* contains an entry of the keyword blacklist, or the clearance rule is
\* enabled and title+employer+description contains a clearance keyword,
\* letter case apart.
FilterSoundnessAsStated ==
  FilterApplied =>
    LET P == fnArgs.jobs[1]
        R == fnArgs.userConfig
    IN (fnResult.value = << >>) <=>
         \/ EmployerMatches(P, R)
         \/ KeywordMatches(P, R)
         \/ ClearanceMatches(P.title \o <<" ">> \o P.company \o <<" ">> \o P.description, R)

\* C13 amended: filterJobs([P], R) excludes P exactly when the employer
\* contains an entry of the employer blacklist, or title+employer+description
\* contains an entry of the keyword blacklist, or the clearance rule is
\* enabled and title+description, without the employer, contains a
\* clearance keyword, letter case apart; a posting that is not excluded is
\* returned as it is.
FilterSoundness ==
  FilterApplied =>
    LET P == fnArgs.jobs[1]
        R == fnArgs.userConfig
        matches == \/ EmployerMatches(P, R)
                   \/ KeywordMatches(P, R)
                   \/ ClearanceMatches(P.title \o <<" ">> \o P.description, R)
    IN fnResult.value = IF matches THEN << >> ELSE <<P>>

\* The employer "ACME corp" is excluded by the entry "Acme" of the employer
\* blacklist alone.
FilterSoundnessWitness ==
  /\ FilterApplied /\ fnResult.value = << >>
  /\ fnArgs.jobs[1].company = <<"ACME", " ", "corp">>
  /\ fnArgs.jobs[1].title = <<"x">> /\ fnArgs.jobs[1].description = << >>
  /\ fnArgs.userConfig.blacklisted_companies = <<"x", ",", "Acme">>
  /\ fnArgs.userConfig.skip_keywords = << >>
  /\ ~fnArgs.userConfig.skip_security_clearance

ExtractApplied == fnArgs.fn = "searchJobs" /\ fnResult.done

\* C14. The postings searchJobs returns for a page are deduplicated by url
\* and then capped: no two of them have the same url, each is the first
\* element of the page with its url, they are in page order, and they are
\* the first min(10, number of distinct urls) distinct urls of the page.
DiscoveryDedupThenCap ==
  ExtractApplied =>
    LET raw == fnArgs.results
        out == fnResult.value
        urls == {raw[i].url : i \in 1..Len(raw)}
        First(i) == \A m \in 1..(i - 1) : raw[m].url # raw[i].url
        firsts == {i \in 1..Len(raw) : First(i)}
        wanted == {i \in firsts : Cardinality({j \in firsts : j <= i}) <= 10}
    IN /\ \A k, l \in 1..Len(out) : k # l => out[k].url # out[l].url
       /\ Len(out) = IF Cardinality(urls) < 10 THEN Cardinality(urls) ELSE 10
       /\ \A k, l \in 1..Len(out) : k < l => out[k].title < out[l].title
       /\ {out[k] : k \in 1..Len(out)} = {raw[i] : i \in wanted}

\* A page of 12 elements with 10 distinct urls gives 10 postings.
DiscoveryDedupThenCapWitness ==
  /\ ExtractApplied
  /\ Len(fnArgs.results) = 12
  /\ Cardinality({fnArgs.results[i].url : i \in 1..12}) = 10
  /\ Len(fnResult.value) = 10

UploadApplied == fnArgs.fn = "handleFileUploads" /\ fnResult.done

NoResumeAtAll ==
  ~fnArgs.userConfig.selected_resume_id /\ ~fnArgs.userConfig.resume_path

FillApplied == fnArgs.fn = "fillAllFieldsWithAI" /\ fnResult.done

\* C26. FillFields never aborts on a single field failure: whatever fails
\* in the locating or the filling of a field, the phone field in its primary
\* and in its fallback path included, fillAllFieldsWithAI returns normally
\* and the call of every label of the sequence and the residual sweep were
\* made.  (The runs of dismissOverlays are taken to succeed.)
FieldFailureAbsorbed ==
  (FillApplied /\ \A l \in RobustLabels : fnArgs.env.fields[l].top) =>
    /\ ~fnResult.value.threw
    /\ fnResult.value.processed = FillSequence \o <<"remaining">>

\* C30. Every call of fill on a field during fillAllFieldsWithAI comes after
\* a run of dismissOverlays with no other call of fill in between.
FillAfterDismissal ==
  FillApplied =>
    LET events == fnResult.value.events IN
    \A i \in 1..Len(events) :
      events[i].op = "fill" =>
        \E j \in 1..(i - 1) :
          /\ events[j] = Dismiss
          /\ \A k \in (j + 1)..(i - 1) : events[k].op # "fill"

\* C28. Whenever handleFileUploads has written the resume to the transient
\* file, the file does not exist any more when handleFileUploads is over.
TempFileRemoved ==
  UploadApplied => (fnResult.value.temp => ~fnResult.value.left)

\* C29. With a file input found, the strategies are tried in the order
\* direct, drop zone, programmatic assignment, and the programmatic
\* assignment is made only when the direct attachment and the retry after
\* the drop zone both failed, so that it replaces no attached document.
StrategiesInOrder ==
  (UploadApplied /\ fnResult.value.temp /\ fnArgs.env.fileInput) =>
    LET out == fnResult.value
        env == fnArgs.env
    IN /\ out.tried \in {<< >>, <<"direct">>, <<"direct", "assign">>,
                         <<"direct", "dropzone", "assign">>}
       /\ "assign" \in Range(out.tried) =>
            env.direct = "throws" /\ env.dropzone # "retryOk"

\* C21. Pacing: every applyToJob invocation of a batch after the first one
\* starts from the pacing delay, whatever the attempt before it returned or
\* threw.
PacingBetweenAttempts ==
  [][\A p \in Procs :
       (pc'[p] = "dupCheck" /\ pc[p] # "dupCheck" /\ jobIdx'[p] > 1) =>
         pc[p] = "delay"]_vars

\* The stages of an attempt in their order.
StageOrder ==
  <<"DuplicateCheck", "Navigate", "LocateApplyControl", "OpenForm", "FillFields",
    "AttachResume", "Submit", "VerifyOutcome">>

StagePos(st) == CHOOSE i \in 1..Len(StageOrder) : StageOrder[i] = st

\* C22. An attempt enters the stages in the fixed order, one after the
\* other, or ends; the posting is navigated to only after the duplicate
\* check found no record, and the submit control is clicked only when
\* field filling and resume attachment are over.
StagesInOrder ==
  [][\A p \in Procs :
       /\ stage'[p] # stage[p] =>
            \/ stage'[p] = "none"
            \/ stage[p] = "none" /\ stage'[p] = StageOrder[1]
            \/ /\ stage[p] # "none"
               /\ StagePos(stage'[p]) = StagePos(stage[p]) + 1
       /\ (navigated'[p] /\ ~navigated[p]) =>
            /\ stage[p] = "DuplicateCheck"
            /\ ~hasAppliedToJob(ledger, CurUser(p), CurJob(p))
       /\ submitClicks'[p] > submitClicks[p] =>
            stage[p] = "AttachResume" /\ filled[p]]_vars

\* An attempt went through all the stages and ended 'applied'.
StagesInOrderWitness ==
  \E p \in Procs :
    /\ pc[p] = "attemptEnd" /\ result[p] = "applied"
    /\ stage[p] = "VerifyOutcome" /\ navigated[p] /\ filled[p] /\ submitClicks[p] = 1

PastDuplicateCheck(p) == stage[p] \notin {"none", "DuplicateCheck"}

\* C23 as stated: every attempt that got past the duplicate check has, when
\* it ends, a record for (user, url) in the ledger.
TerminalRecordAlwaysAsStated ==
  \A p \in Procs :
    (pc[p] = "attemptEnd" /\ PastDuplicateCheck(p)) =>
      CountKey(ledger, CurUser(p), CurJob(p)) >= 1

\* C23 amended: an attempt that got past the duplicate check ends either
\* with a result 'applied' or 'error' and exactly one record of that status
\* for (user, url), added by the attempt, or, when the write of the 'error'
\* record failed, by throwing with no record added; a failed write of the
\* 'applied' record leads to the write of an 'error' record.
TerminalRecordAlways ==
  \A p \in Procs :
    (pc[p] = "attemptEnd" /\ PastDuplicateCheck(p)) =>
      \/ /\ result[p] \in {"applied", "error"}
         /\ appended[p] = 1
         /\ CopiesIn(Row(CurUser(p), CurJob(p), result[p]), ledger) = 1
         /\ CountKey(ledger, CurUser(p), CurJob(p)) = 1
         /\ err[p] = "logFailed" => result[p] = "error"
      \/ /\ result[p] = "threw"
         /\ err[p] # "none"
         /\ appended[p] = 0
         /\ CountKey(ledger, CurUser(p), CurJob(p)) = 0

\* The submit control was clicked, the success indicator was found, the
\* write of the 'applied' record failed, and the attempt ended with an
\* 'error' record.
TerminalRecordAlwaysWitness ==
  \E p \in Procs :
    /\ pc[p] = "attemptEnd" /\ err[p] = "logFailed" /\ result[p] = "error"
    /\ submitClicks[p] = 1
    /\ CopiesIn(Row(CurUser(p), CurJob(p), "error"), ledger) = 1

NoRepeat(s) == \A i, j \in 1..Len(s) : i # j => s[i] # s[j]

\* C24. No retry within a run: the submit control is clicked at most once
\* in an attempt, applyToJob is invoked at most once per posting for a
\* user, and processUser at most once per user in a run.
NoRetryWithinRun ==
  \A p \in Procs :
    /\ submitClicks[p] <= 1
    /\ NoRepeat(tried[p])
    /\ NoRepeat(invoked[p])

\* The second posting of a batch is attempted after the first attempt ended
\* 'error' with the submit control clicked.
NoRetryWithinRunWitness ==
  \E p \in Procs :
    /\ pc[p] = "navigate" /\ Len(tried[p]) = 2
    /\ lastOutcome[p] = "error"
    /\ CopiesIn(Row(CurUser(p), tried[p][1], "error"), ledger) = 1

ResumeFailureAbsorbed ==
  \A p \in Procs :
    stage[p] = "AttachResume" => pc[p] = "submit" /\ err[p] = "none"

\* The submit control was clicked in an attempt in which handleFileUploads
\* left no resume in the file input.
ResumeFailureAbsorbedWitness ==
  \E p \in Procs :
    /\ stage[p] = "Submit" /\ submitClicks[p] = 1 /\ ~attached[p] /\ filled[p]
    /\ pc[p] = "verify"

RobustFillApplied == fnArgs.fn = "robustFill" /\ fnResult.done

\* The selectors of the call for which page.$ returned an element.
Matching(outcomes) ==
  {i \in DOMAIN outcomes : outcomes[i] \in {"dismissThrows", "fillThrows", "filled"}}

Least(S) == CHOOSE i \in S : \A j \in S : i <= j

UpTo(n) == [k \in 1..n |-> k]

\* C31 as stated.  The selectors are tried in the order of the list and the
\* value is written to the element of the first selector that matches: no
\* selector after it is used, at most one element is written, and when no
\* selector matches robustFill returns false with no element written.
FieldResolutionOrderAsStated ==
  RobustFillApplied =>
    LET out == fnResult.value
        M == Matching(fnArgs.field.selectors)
    IN /\ Len(out.written) <= 1
       /\ M # {} => out.queried = UpTo(Least(M)) /\ out.written = <<Least(M)>>
       /\ M = {} => /\ out.queried = UpTo(Len(fnArgs.field.selectors))
                    /\ out.written = << >> /\ ~out.filled /\ ~out.threw

\* C31.  The selectors are tried in the order of the list up to the first one
\* whose element is found and takes the value, which is the one element
\* written; a selector whose element is found but cannot be written is passed
\* over for the ones after it.  When no selector gives an element that takes
\* the value, robustFill returns false with no element written.  robustFill
\* throws only when the dismissOverlays before the loop throws, before any
\* selector is tried.
FieldResolutionOrder ==
  RobustFillApplied =>
    LET out == fnResult.value
        o == fnArgs.field.selectors
        W == {i \in DOMAIN o : o[i] = "filled"}
    IN IF ~fnArgs.field.top
         THEN out.threw /\ out.queried = << >> /\ out.written = << >>
         ELSE /\ ~out.threw
              /\ out.filled <=> W # {}
              /\ W # {} => out.queried = UpTo(Least(W)) /\ out.written = <<Least(W)>>
              /\ W = {} => out.queried = UpTo(Len(o)) /\ out.written = << >>

\* A first matching selector whose element cannot be written, and the value
\* in the element of the second.
FieldResolutionOrderWitness ==
  /\ RobustFillApplied /\ fnArgs.field.top
  /\ fnArgs.field.selectors[1] = "fillThrows"
  /\ fnArgs.field.selectors[2] = "filled"
  /\ fnResult.value.written = <<2>>
  /\ fnResult.value.queried = <<1, 2>>

\* The generative answer service fails or yields nothing.
ServiceFailsOrEmpty(service) ==
  service.create = "throws" \/ Falsy(service.content)

\* C32. When the profile has no non-empty value for a field and the answer
\* service fails or yields nothing, the value for the field is the empty
\* text.
LastResortEmpty ==
  (/\ fnArgs.fn = "getValue" /\ fnResult.done
   /\ Falsy(fnArgs.profile) /\ ServiceFailsOrEmpty(fnArgs.service))
    => fnResult.value = << >>

GenerateAnswerApplied == fnArgs.fn = "generateAnswer" /\ fnResult.done

\* The reply is the JSON text of an object with the member answer.
ExpectedStructure(response) ==
  LET parsed == JSONparse(response)
  IN ~parsed.threw /\ parsed.value \in {"{answer:}", "{answer:yes}"}

SelectRadiosApplied == fnArgs.fn = "selectRadios" /\ fnResult.done

\* An option signals affirmation, negation, by its value or its label.
Affirmative(option) == IsYesOption(option.value, option.label)
Negative(option) == ~IsNotNoOption(option.value, option.label)

\* The options of group g that are checked.
CheckedIn(checked, g) == {r[2] : r \in {x \in checked : x[1] = g}}

\* C34. When the sweep is over, in every radio group with an affirmative
\* option the option checked is an affirmative one, and in every group with
\* no affirmative option the option checked is the first that is not
\* negative.
YesNoGroupsAffirmative ==
  SelectRadiosApplied =>
    \A g \in 1..Len(fnArgs.form.groups) :
      LET options == fnArgs.form.groups[g].options
          yes == {k \in DOMAIN options : Affirmative(options[k])}
          notNo == {k \in DOMAIN options : ~Negative(options[k])}
          sel == CheckedIn(fnResult.value.checked, g)
      IN /\ yes # {} => sel # {} /\ sel \subseteq yes
         /\ (yes = {} /\ notNo # {}) => sel = {FirstPlace(notNo)}

\* The text around the radios of group g matches the keywords of work
\* authorization.
AuthGroup(form, g) == isAuthQuestion(ContextText(form, <<g, 1>>))

\* C35. When the function is over, in every radio group whose surrounding
\* text matches the work-authorization keywords and that has an affirmative
\* option, the option checked is an affirmative one and not a negative one.
AuthorizationForcedAffirmative ==
  SelectRadiosApplied =>
    \A g \in 1..Len(fnArgs.form.groups) :
      LET options == fnArgs.form.groups[g].options
          sel == CheckedIn(fnResult.value.checked, g)
      IN (AuthGroup(fnArgs.form, g) /\ \E k \in DOMAIN options : Affirmative(options[k]))
           => /\ sel # {}
              /\ \A k \in sel : Affirmative(options[k]) /\ ~Negative(options[k])

\* C36. When a scheduled run has ended, on whatever path, isRunning is
\* false, and the cron callback that fires next starts a run instead of
\* skipping.
GuardClearedAfterRun ==
  [][\A p \in Procs :
       (p = "sched" /\ RunEnded(p) /\ pc[p] = "idle") =>
         /\ ~isRunning[p]
         /\ lastTick'[p] # lastTick[p] => lastTick'[p] = "started"]_vars

\* A run that ended on a failure of the browser launch, or of the store, with
\* the guard cleared.
GuardClearedAfterRunWitness ==
  /\ pc["sched"] = "idle" /\ runOutcome["sched"] \in {"initError", "storeError"}
  /\ ~isRunning["sched"]

\* C37. Whenever applyToJob has returned a result: success is true exactly
\* when the status is 'applied'; with the status 'applied' or 'error' the
\* call added one record for (user, url) and that record has the status
\* returned; with 'duplicate' the call added no record; and the status
\* 'skipped' is neither returned nor recorded by the call.
ResultAndLedgerAgree ==
  \A p \in Procs :
    (pc[p] = "attemptEnd" /\ result[p] \notin {"none", "threw"}) =>
      /\ success[p] <=> result[p] = "applied"
      /\ result[p] \in {"applied", "error", "duplicate"}
      /\ result[p] \in {"applied", "error"} =>
           /\ appended[p] = 1
           /\ CopiesIn(Row(CurUser(p), CurJob(p), result[p]), ledger) = 1
           /\ CountKey(ledger, CurUser(p), CurJob(p)) = 1
      /\ result[p] = "duplicate" =>
           /\ appended[p] = 0
           /\ StatusOf(ledger, CurUser(p), CurJob(p)) = preStatus[p]
      /\ \A q \in Rows(ledger) : q.status # "skipped"

\* An 'error' result after the write of the 'applied' record failed.
ResultAndLedgerAgreeWitness ==
  \E p \in Procs :
    /\ pc[p] = "attemptEnd" /\ result[p] = "error" /\ err[p] = "logFailed"
    /\ ~success[p]
    /\ CopiesIn(Row(CurUser(p), CurJob(p), "error"), ledger) = 1

JobsToApplyApplied == fnArgs.fn = "processUser" /\ fnResult.done

\* C38. The postings applyToJob is called with for a user in a run are at
\* most 10, none of them is a posting the filter excluded, and they are the
\* first 10 (or all, if fewer) of the postings found that the filter did not
\* exclude, in the order in which they were found.
PerUserAttemptCap ==
  JobsToApplyApplied =>
    LET found == evaluateJobs(fnArgs.results)
        out == fnResult.value
        kept == {i \in 1..Len(found) : found[i].url \notin fnArgs.excluded}
        place(k) == CHOOSE i \in kept : Cardinality({j \in kept : j <= i}) = k
    IN /\ Len(out) <= 10
       /\ Len(out) = IF Cardinality(kept) < 10 THEN Cardinality(kept) ELSE 10
       /\ \A k \in 1..Len(out) : out[k].url \notin fnArgs.excluded
       /\ \A k \in 1..Len(out) : out[k] = found[place(k)]

\* A page with 11 postings of which the first and the fifth are excluded:
\* the others of the first 10 are the ones applyToJob is called with.
PerUserAttemptCapWitness ==
  /\ JobsToApplyApplied
  /\ Cardinality({fnArgs.results[i].url : i \in 1..Len(fnArgs.results)}) = 11
  /\ fnArgs.excluded = {1, 5}
  /\ Len(fnResult.value) = 8
  /\ fnResult.value[1].url = 2

\* The entries of a comma-separated list that are not empty.
NonEmptyEntries(list) == Entries(list) \ {<< >>}

\* C39. An empty entry of the employer or of the keyword blacklist excludes
\* no posting: a posting filterJobs excludes contains an entry that is not
\* empty of one of the two lists, or a clearance keyword with the clearance
\* rule enabled.
EmptyEntryExcludesNothing ==
  (FilterApplied /\ fnResult.value = << >>) =>
    LET P == fnArgs.jobs[1]
        R == fnArgs.userConfig
    IN \/ \E e \in NonEmptyEntries(R.blacklisted_companies) : ContainsCI(P.company, e)
       \/ \E e \in NonEmptyEntries(R.skip_keywords) :
            ContainsCI(P.title \o <<" ">> \o P.company \o <<" ">> \o P.description, e)
       \/ ClearanceMatches(P.title \o <<" ">> \o P.description, R)

====
